---- MODULE Spec2Model ----
(***************************************************************************)
(* Order matching engine: the per-symbol order book (engine/orderbook.go,  *)
(* engine/order.go) and the thread-safe MatchingEngine around it           *)
(* (engine/engine.go).  A handler is a sequence of steps; a step is one     *)
(* critical section, or one write to a field of a shared Order made while  *)
(* the symbol lock is held across several writes.  A step that begins with *)
(* Lock()/RLock() is enabled only when the mutex can be taken.             *)
(***************************************************************************)
EXTENDS Integers, Sequences, FiniteSets, TLC

\* ---------------------------------------------------------------- bounds
\* Number of orders submitted in one run (identifiers 1..MaxOrders).
MaxOrders == 3
\* LIMIT prices are drawn from 1..MaxPrice.
MaxPrice == 2
\* Quantities are drawn from 1..MaxQty.
MaxQty == 3
\* Orders submitted in one run of concurrent goroutines (SpecConc).
ConcOrders == 2
\* Snapshot depths are drawn from 0..MaxDepth.
MaxDepth == 2
\* Orders submitted in one run with status and snapshot queries (SpecQuery).
QueryOrders == 3
\* Orders submitted in one run over two symbols (SpecSym).
SymOrders == 2
\* Prices and quantities of the orders of SpecSym are drawn from 1..SymSize.
SymSize == 1
\* Orders submitted in one run of concurrent Submits and Snapshots (SpecSerial).
SerialOrders == 3
\* Prices and quantities of the orders of SpecSerial.
SerialPrice == 1
SerialQty == 2
\* Prices and quantities of the orders of concurrent Submits, Cancels and
\* GetOrderStatus calls (SpecObserve).
ObservePrice == 1
ObserveQty == 2
\* Orders submitted in one run under fair scheduling (SpecLive), at price 1
\* and with quantities drawn from 1..LiveQty.
LiveOrders == 2
LiveQty == 1
\* Orders the HTTP handler hands to the engine in one run (SpecHttp).
HttpOrders == 2
\* Clients send the identifiers 1..HttpIds, or none.
HttpIds == 1
\* Requests carry prices up to HttpPrice and quantities up to HttpQty.
HttpPrice == 1
HttpQty == 2

\* Caller goroutines; an idle one starts any operation.
Threads == 1..2
Symbols == {"AAPL"}

\* ------------------------------------------------------- value types
Buy == "BUY"
Sell == "SELL"
Limit == "LIMIT"
Market == "MARKET"
StatusAccepted == "ACCEPTED"
StatusPartialFill == "PARTIAL_FILL"
StatusFilled == "FILLED"
StatusCancelled == "CANCELLED"

OrderIds == 1..MaxOrders
Prices == 1..MaxPrice
Quantities == 1..MaxQty

\* NewOrder: FilledQuantity 0, Status ACCEPTED, no queue handle.
NewOrder(id, symbol, side, orderType, price, quantity) ==
  [id |-> id, sym |-> symbol, side |-> side, type |-> orderType, price |-> price,
   qty |-> quantity, filled |-> 0, status |-> StatusAccepted, element |-> FALSE]

\* Order.RemainingQuantity
RemainingQuantity(o) == o.qty - o.filled

min(a, b) == IF a < b THEN a ELSE b

\* Trade: TradeID and Timestamp carry no behaviour and are left out.
createTrade(aggressorOrderID, restingOrderID, price, quantity) ==
  [agg |-> aggressorOrderID, rest |-> restingOrderID, price |-> price, qty |-> quantity]

\* ------------------------------------------------------- B-tree comparators
\* Mutant: the ask comparator reversed.
AsksSortReversed(a, b) == a > b

AsksSort(a, b) == a < b
BidsSort(a, b) == a > b

\* btree.Min under the tree's comparator: the item no other item sorts before.
TreeMin(tree, side) ==
  CHOOSE p \in tree : \A q \in tree \ {p} :
    IF side = Sell THEN AsksSort(p, q) ELSE BidsSort(p, q)

\* btree.Ascend: the items of the tree in comparator order.
RECURSIVE Ascend(_, _)
Ascend(tree, side) ==
  IF tree = {} THEN <<>>
  ELSE LET p == TreeMin(tree, side) IN <<p>> \o Ascend(tree \ {p}, side)

\* ------------------------------------------------------- OrderBook
\* An Order object is referred to by its position in the variable orders (its
\* address); Order.ID is the field id of the object.
\* bids/asks: the prices of the PriceLevels held by each B-tree;
\* bidPriceMap/askPriceMap: price -> FIFO queue of orders (the level's list);
\* orderMap: Order.ID -> the order whose list element is recorded under it.
NewOrderBook ==
  [bids |-> {}, asks |-> {}, bidPriceMap |-> <<>>, askPriceMap |-> <<>>, orderMap |-> <<>>]

MapPut(m, k, v) == [x \in DOMAIN m \cup {k} |-> IF x = k THEN v ELSE m[x]]
MapDel(m, k) == [x \in DOMAIN m \ {k} |-> m[x]]

TreeOf(b, side) == IF side = Buy THEN b.bids ELSE b.asks
PriceMapOf(b, side) == IF side = Buy THEN b.bidPriceMap ELSE b.askPriceMap
Opposite(side) == IF side = Buy THEN Sell ELSE Buy

\* The queue of the level a pointer obtained from the tree refers to; a level
\* already dropped from the book is an empty list.
LevelOrders(b, side, price) ==
  IF price \in DOMAIN PriceMapOf(b, side) THEN PriceMapOf(b, side)[price] ELSE <<>>

\* Mutant: PushFront instead of PushBack.
PLAddOrderFront(queue, id) == <<id>> \o queue

\* PriceLevel.AddOrder: PushBack.
PLAddOrder(queue, order) == Append(queue, order)

\* PriceLevel.RemoveOrder: removes the node only when the handle is non-nil.
PLRemoveOrder(queue, order, element) ==
  IF element THEN SelectSeq(queue, LAMBDA x : x # order) ELSE queue

\* addBid / addAsk: find or create the level, push back, record the handle
\* under the order's ID.
addOrder(b, order, o) ==
  LET pm == PriceMapOf(b, o.side)
      exists == o.price \in DOMAIN pm
      level == IF exists THEN pm[o.price] ELSE <<>>
      pm2 == MapPut(pm, o.price, PLAddOrder(level, order))
      tree2 == TreeOf(b, o.side) \cup {o.price}
      om2 == MapPut(b.orderMap, o.id, order)
  IN IF o.side = Buy
     THEN [b EXCEPT !.bidPriceMap = pm2, !.bids = tree2, !.orderMap = om2]
     ELSE [b EXCEPT !.askPriceMap = pm2, !.asks = tree2, !.orderMap = om2]

\* Mutant: a level whose list has become empty is left in the map and the tree.
removeOrderKeepLevel(b, order, o) ==
  LET pm == PriceMapOf(b, o.side)
      pm2 == MapPut(pm, o.price, PLRemoveOrder(pm[o.price], order, o.element))
      om2 == MapDel(b.orderMap, o.id)
  IN IF o.side = Buy
     THEN [b EXCEPT !.bidPriceMap = pm2, !.orderMap = om2]
     ELSE [b EXCEPT !.askPriceMap = pm2, !.orderMap = om2]

\* removeOrder: drop the order's ID from orderMap, remove it from its level, and delete
\* the level from the price map and the tree when its list is empty.
removeOrder(b, order, o) ==
  LET pm == PriceMapOf(b, o.side)
      queue == PLRemoveOrder(pm[o.price], order, o.element)
      empty == Len(queue) = 0
      pm2 == IF empty THEN MapDel(pm, o.price) ELSE MapPut(pm, o.price, queue)
      tree2 == IF empty THEN TreeOf(b, o.side) \ {o.price} ELSE TreeOf(b, o.side)
      om2 == MapDel(b.orderMap, o.id)
  IN IF o.side = Buy
     THEN [b EXCEPT !.bidPriceMap = pm2, !.bids = tree2, !.orderMap = om2]
     ELSE [b EXCEPT !.askPriceMap = pm2, !.asks = tree2, !.orderMap = om2]

\* The ids held by the levels of one side, best level first, FIFO inside a level.
RECURSIVE Flatten(_)
Flatten(seqs) == IF seqs = <<>> THEN <<>> ELSE Head(seqs) \o Flatten(Tail(seqs))

SideOrders(b, side) ==
  LET ps == Ascend(TreeOf(b, side), side)
  IN Flatten([i \in 1..Len(ps) |-> LevelOrders(b, side, ps[i])])

\* Mutant: the scan adds original quantities instead of remaining ones.
RECURSIVE ScanLiquidityOriginal(_, _, _, _)
ScanLiquidityOriginal(ids, os, total, quantity) ==
  IF ids = <<>> THEN total
  ELSE LET t2 == total + os[Head(ids)].qty
       IN IF t2 >= quantity THEN t2
          ELSE ScanLiquidityOriginal(Tail(ids), os, t2, quantity)

\* checkMarketOrderLiquidity: walk the opposite side, adding remaining
\* quantities, and stop as soon as the total reaches the order's quantity.
RECURSIVE ScanLiquidity(_, _, _, _)
ScanLiquidity(ids, os, total, quantity) ==
  IF ids = <<>> THEN total
  ELSE LET t2 == total + RemainingQuantity(os[Head(ids)])
       IN IF t2 >= quantity THEN t2 ELSE ScanLiquidity(Tail(ids), os, t2, quantity)

checkMarketOrderLiquidity(b, o, os) ==
  LET totalQuantity == ScanLiquidity(SideOrders(b, Opposite(o.side)), os, 0, o.qty)
  IN <<totalQuantity, totalQuantity >= o.qty>>

\* ------------------------------------------------------- sync.RWMutex
\* w: the goroutine holding the lock in write mode (at most one); r: the readers.
FreeLock == [w |-> {}, r |-> {}]
\* Mutant: Lock does not wait for the holder.
CanLockAlways(l) == TRUE
CanLock(l) == l.w = {} /\ l.r = {}
CanRLock(l) == l.w = {}
Lock(l, t) == [l EXCEPT !.w = {t}]
\* Mutant: Unlock leaves the lock held.
UnlockNever(l) == l
Unlock(l) == [l EXCEPT !.w = {}]
RLock(l, t) == [l EXCEPT !.r = @ \cup {t}]
RUnlock(l, t) == [l EXCEPT !.r = @ \ {t}]

\* ------------------------------------------------------- state
VARIABLES
  orders,          \* the Order objects ever built, in the order of their creation
  orderStore,      \* MatchingEngine.orderStore: Order.ID -> order
  Books,           \* MatchingEngine.Books: symbol -> index into heapBooks
  Locks,           \* MatchingEngine.Locks: symbol -> index into heapLocks
  heapBooks,       \* every OrderBook ever created
  heapLocks,       \* every per-symbol RWMutex ever created
  globalMutex,     \* MatchingEngine.globalMutex
  orderStoreMutex, \* MatchingEngine.orderStoreMutex
  pc,              \* each goroutine's position
  loc,             \* each goroutine's local variables
  allTrades,       \* history: every Trade emitted, in emission order
  before,          \* history: per order, the orders whose Submit had returned
                   \* and the orders cancelled when its own Submit was called,
                   \* and whether its own Submit has returned without error
  cancelled        \* history: the ids a CancelOrder call has returned for

vars == <<orders, orderStore, Books, Locks, heapBooks, heapLocks, globalMutex,
          orderStoreMutex, pc, loc, allTrades, before, cancelled>>

\* A goroutine outside any call; 0 and "" stand for nil.
IdleLoc ==
  [op |-> "none", http |-> FALSE, id |-> 0, order |-> 0, sym |-> "", book |-> 0, lock |-> 0,
   trades |-> <<>>, filledOrders |-> <<>>, best |-> 0, rest |-> 0,
   tq |-> 0, total |-> 0, inBook |-> FALSE, res |-> "none", status |-> "",
   req |-> 0, late |-> FALSE, filled |-> 0, depth |-> 0, bids |-> <<>>,
   asks |-> <<>>, rep |-> FALSE, quiet |-> FALSE, prevBids |-> <<>>,
   prevAsks |-> <<>>, code |-> 0, path |-> <<>>, atLock |-> <<>>,
   lapped |-> FALSE, remaining |-> 0]

\* NewMatchingEngine: empty maps, unlocked mutexes; no goroutine is in a call.
Init ==
  /\ orders = <<>>
  /\ orderStore = <<>>
  /\ Books = <<>>
  /\ Locks = <<>>
  /\ heapBooks = <<>>
  /\ heapLocks = <<>>
  /\ globalMutex = FreeLock
  /\ orderStoreMutex = FreeLock
  /\ pc = [t \in Threads |-> "idle"]
  /\ loc = [t \in Threads |-> IdleLoc]
  /\ allTrades = <<>>
  /\ before = <<>>
  /\ cancelled = {}

\* A goroutine that is in no call: it never made one, or its last one returned
\* (loc then still holds what the call returned).
Free(t) == pc[t] \in {"idle", "done"}

\* A goroutine that is inside a call of the engine; the HTTP handler is outside
\* it once SubmitOrder has returned, and the caller of CancelOrder once that
\* has returned the order.
InEngine(t) ==
  pc[t] \notin {"idle", "done", "h_respond", "h_encode", "h_filled", "h_remaining",
               "c_read"}

\* The orders whose Submit has returned to its caller.
Completed ==
  {i \in DOMAIN orders :
     \A t \in Threads : ~(loc[t].op = "submit" /\ loc[t].order = i /\ InEngine(t))}

\* The locals of all goroutines when t enters SubmitOrder or CancelOrder with
\* locals l.  History: the call ends the quiet period every other goroutine
\* may be recording (see CallSnapshot).
Called(t, l) ==
  [u \in Threads |-> IF u = t THEN l ELSE [loc[u] EXCEPT !.quiet = FALSE]]

\* ------------------------------------------------------- Order.Status, written and read without a common lock
\* The matcher writes Status holding the symbol's lock, CancelOrder holding
\* orderStoreMutex, and the readers hold orderStoreMutex or no lock.  A Status
\* is a string of two words: what a read that overlaps a write of another
\* value yields, and what two overlapping writes of different values can leave
\* in memory, is a string that is none of the four constants.
Torn == "?"

\* Goroutine u is at CancelOrder's write of the Status of order.
AtCancelWrite(u, order) == pc[u] = "c_mark" /\ loc[u].order = order

\* ProcessOrder writes the Status of the incoming order o after matching:
\* PARTIAL_FILL when a filled remainder rests, FILLED when nothing remains.
PostWrites(o) ==
  \/ o.type = Limit /\ RemainingQuantity(o) > 0 /\ o.filled > 0
  \/ ~(o.type = Limit /\ RemainingQuantity(o) > 0) /\ RemainingQuantity(o) = 0

\* Goroutine u is at a write of the Status of order made by the matcher (the
\* resting order it has just filled) or by ProcessOrder (the incoming order).
AtMatcherWrite(u, order) ==
  \/ pc[u] = "m_statR" /\ loc[u].rest = order
  \/ pc[u] = "p_post" /\ loc[u].order = order /\ PostWrites(orders[order])

AtWrite(u, order) == AtCancelWrite(u, order) \/ AtMatcherWrite(u, order)

\* The values the Status of order can hold after goroutine t has written value
\* to it: value; or a torn string when the write overlaps that of another
\* goroutine, which is at its own write, or which completed its write while t
\* was at this one (lapped): one word of value may have been stored before
\* the other goroutine's write and the other word after it.
Stored(t, order, value) ==
  {value} \cup
  IF loc[t].lapped \/ \E u \in Threads \ {t} : AtWrite(u, order) THEN {Torn} ELSE {}

\* The locals l of all goroutines after t has completed a write to the Status
\* of order.  History: lapped tells a goroutine that is at its write of that
\* Status that another goroutine has completed a write in the meantime,
\* whatever that write left in memory.
Lapping(l, t, order) ==
  [u \in Threads |->
     IF u = t THEN [l[u] EXCEPT !.lapped = FALSE]
     ELSE IF AtWrite(u, order) THEN [l[u] EXCEPT !.lapped = TRUE]
     ELSE l[u]]

\* ------------------------------------------------------- getBookAndLock
\* Where the caller of getBookAndLock goes on.
AfterGetBook(op) ==
  CASE op = "submit" -> "s_dir_put"
    [] op = "cancel" -> "c_remove"
    [] OTHER -> "n_walk"

\* Fast path: RLock; lock, ok := me.Locks[symbol]; book, okBook :=
\* me.Books[symbol]; RUnlock; return both when both are present.
gbl_read(t) ==
  LET sym == loc[t].sym
      ok == sym \in DOMAIN Locks
      okBook == sym \in DOMAIN Books
  IN /\ pc[t] = "gbl_read"
     /\ CanRLock(globalMutex)
     /\ globalMutex' = RUnlock(RLock(globalMutex, t), t)
     /\ IF ok /\ okBook
        THEN /\ loc' = [loc EXCEPT ![t].book = Books[sym], ![t].lock = Locks[sym]]
             /\ pc' = [pc EXCEPT ![t] = AfterGetBook(loc[t].op)]
        ELSE /\ loc' = loc
             /\ pc' = [pc EXCEPT ![t] = "gbl_create"]
     /\ UNCHANGED <<orders, orderStore, Books, Locks, heapBooks, heapLocks,
                    orderStoreMutex, allTrades, before, cancelled>>

\* Mutant: the slow path does not re-check and always creates.
HasLockNever(locks, sym) == FALSE

\* Whether the slow path returns the existing lock instead of creating one.
HasLock(locks, sym) == sym \in DOMAIN locks

\* Mutant: every symbol is given the first mutex ever created.
NewLockRefShared(heap) == 1

\* newLock := &sync.RWMutex{}: the reference to the mutex about to be allocated.
NewLockRef(heap) == Len(heap) + 1

\* Slow path: Lock; re-check me.Locks[symbol]; create the lock and the book
\* when the symbol has no lock yet; the deferred Unlock runs on return.
gbl_create(t) ==
  LET sym == loc[t].sym
  IN /\ pc[t] = "gbl_create"
     /\ CanLock(globalMutex)
     /\ globalMutex' = Unlock(Lock(globalMutex, t))
     /\ IF HasLock(Locks, sym)
        THEN /\ loc' = [loc EXCEPT
                  ![t].book = IF sym \in DOMAIN Books THEN Books[sym] ELSE 0,
                  ![t].lock = Locks[sym]]
             /\ UNCHANGED <<Books, Locks, heapBooks, heapLocks>>
        ELSE /\ heapLocks' = Append(heapLocks, FreeLock)
             /\ heapBooks' = Append(heapBooks, NewOrderBook)
             /\ Locks' = MapPut(Locks, sym, NewLockRef(heapLocks))
             /\ Books' = MapPut(Books, sym, Len(heapBooks) + 1)
             /\ loc' = [loc EXCEPT ![t].book = Len(heapBooks) + 1,
                                   ![t].lock = NewLockRef(heapLocks)]
     /\ pc' = [pc EXCEPT ![t] = AfterGetBook(loc[t].op)]
     /\ UNCHANGED <<orders, orderStore, orderStoreMutex, allTrades, before, cancelled>>

\* ------------------------------------------------------- SubmitOrder
\* A caller builds a new Order with NewOrder (status ACCEPTED, nothing filled)
\* and calls SubmitOrder, whose first statement is getBookAndLock.  http tells
\* whether the caller is the HTTP handler, which goes on after the return.
SubmitOrder(t, id, symbol, side, orderType, price, quantity, http) ==
  /\ Free(t)
  /\ orders' = Append(orders, NewOrder(id, symbol, side, orderType, price, quantity))
  /\ before' = Append(before, [submitted |-> Completed, cancelled |-> cancelled,
                               ok |-> FALSE])
  /\ loc' = Called(t, [IdleLoc EXCEPT !.op = "submit", !.id = id,
                                      !.order = Len(orders) + 1, !.sym = symbol,
                                      !.http = http])
  /\ pc' = [pc EXCEPT ![t] = "gbl_read"]
  /\ UNCHANGED <<orderStore, Books, Locks, heapBooks, heapLocks, globalMutex,
                 orderStoreMutex, allTrades, cancelled>>

\* A caller of the engine that keeps its precondition: the identifier was not
\* used before.  MARKET orders carry price 0.
CallSubmit(t, symbol, side, orderType, price, quantity) ==
  SubmitOrder(t, Len(orders) + 1, symbol, side, orderType, price, quantity, FALSE)

\* me.orderStoreMutex.Lock(); me.orderStore[order.ID] = order; Unlock
s_dir_put(t) ==
  /\ pc[t] = "s_dir_put"
  /\ CanLock(orderStoreMutex)
  /\ orderStore' = MapPut(orderStore, loc[t].id, loc[t].order)
  /\ orderStoreMutex' = Unlock(Lock(orderStoreMutex, t))
  /\ pc' = [pc EXCEPT ![t] = "s_sym_lock"]
  /\ UNCHANGED <<orders, Books, Locks, heapBooks, heapLocks, globalMutex, loc,
                 allTrades, before, cancelled>>

\* lock.Lock() on the symbol's mutex (held until SubmitOrder returns); for a
\* MARKET order: totalQty, ok := book.checkMarketOrderLiquidity(order).
\* History: atLock keeps the book and the orders as they are when the lock is
\* acquired, until SubmitOrder returns.
s_sym_lock(t) ==
  LET o == orders[loc[t].order]
      r == checkMarketOrderLiquidity(heapBooks[loc[t].book], o, orders)
      was == [book |-> heapBooks[loc[t].book], orders |-> orders]
  IN /\ pc[t] = "s_sym_lock"
     /\ CanLock(heapLocks[loc[t].lock])
     /\ heapLocks' = [heapLocks EXCEPT ![loc[t].lock] = Lock(@, t)]
     /\ IF o.type = Market
        THEN /\ loc' = [loc EXCEPT ![t].total = r[1], ![t].atLock = was]
             /\ pc' = [pc EXCEPT ![t] = IF r[2] THEN "m_outer" ELSE "s_reject"]
        ELSE /\ loc' = [loc EXCEPT ![t].atLock = was]
             /\ pc' = [pc EXCEPT ![t] = "m_outer"]
     /\ UNCHANGED <<orders, orderStore, Books, Locks, heapBooks, globalMutex,
                    orderStoreMutex, allTrades, before, cancelled>>

\* Mutant: the rejected order is left in the directory.
DirDeleteNone(store, id) == store

\* delete(me.orderStore, order.ID)
DirDelete(store, id) == MapDel(store, id)

\* Where a goroutine is after SubmitOrder has returned.
Returned(l) == IF l.http THEN "h_respond" ELSE "done"

\* Rejection, with the symbol lock held: me.orderStoreMutex.Lock();
\* delete(me.orderStore, order.ID); Unlock; return the insufficient-liquidity
\* error (totalQty, order.Quantity); the deferred lock.Unlock() runs.
s_reject(t) ==
  /\ pc[t] = "s_reject"
  /\ CanLock(orderStoreMutex)
  /\ orderStore' = DirDelete(orderStore, loc[t].id)
  /\ orderStoreMutex' = Unlock(Lock(orderStoreMutex, t))
  /\ heapLocks' = [heapLocks EXCEPT ![loc[t].lock] = Unlock(@)]
  /\ loc' = [loc EXCEPT ![t].res = "insufficient", ![t].req = orders[loc[t].order].qty,
                        ![t].atLock = <<>>]
  /\ pc' = [pc EXCEPT ![t] = Returned(loc[t])]
  /\ UNCHANGED <<orders, Books, Locks, heapBooks, globalMutex, allTrades, before,
                 cancelled>>

\* ------------------------------------------------------- matchBuyOrder / matchSellOrder
\* Mutant: an order priced exactly at the opposite best does not trade.
NoCrossInclusive(o, bestPrice) ==
  IF o.side = Buy THEN o.price <= bestPrice ELSE o.price >= bestPrice

\* The LIMIT break test of the outer loop: BUY breaks when its price is below
\* the best ask, SELL when its price is above the best bid.
NoCross(o, bestPrice) ==
  IF o.side = Buy THEN o.price < bestPrice ELSE o.price > bestPrice

\* Mutant: the trade takes all the aggressor still wants.
TradeQuantityAggressor(o, resting) == RemainingQuantity(o)

\* tradeQuantity := min(order.RemainingQuantity(), resting.RemainingQuantity())
TradeQuantity(o, resting) == min(RemainingQuantity(o), RemainingQuantity(resting))

\* Mutant: the fill overwrites the filled quantity instead of adding to it.
AddFillAssign(o, tradeQuantity) == [o EXCEPT !.filled = tradeQuantity]

\* order.FilledQuantity += tradeQuantity
AddFill(o, tradeQuantity) == [o EXCEPT !.filled = @ + tradeQuantity]

\* Mutant: the trade is priced at the aggressor's price.
TradePriceAggressor(o, resting) == o.price

\* tradePrice := resting.Price
TradePrice(o, resting) == resting.price

\* Outer loop head: the loop condition, the best opposite level, the LIMIT break.
m_outer(t) ==
  LET o == orders[loc[t].order]
      tree == TreeOf(heapBooks[loc[t].book], Opposite(o.side))
  IN /\ pc[t] = "m_outer"
     /\ IF RemainingQuantity(o) > 0 /\ tree # {}
        THEN LET best == TreeMin(tree, Opposite(o.side))
             IN IF o.type = Limit /\ NoCross(o, best)
                THEN /\ pc' = [pc EXCEPT ![t] = "p_post"]
                     /\ loc' = loc
                ELSE /\ pc' = [pc EXCEPT ![t] = "m_inner"]
                     /\ loc' = [loc EXCEPT ![t].best = best]
        ELSE /\ pc' = [pc EXCEPT ![t] = "p_post"]
             /\ loc' = loc
     /\ UNCHANGED <<orders, orderStore, Books, Locks, heapBooks, heapLocks,
                    globalMutex, orderStoreMutex, allTrades, before, cancelled>>

\* Inner loop head: take the front of the level, emit the trade and add its
\* quantity to the aggressor's FilledQuantity.
m_inner(t) ==
  LET order == loc[t].order
      o == orders[order]
      queue == LevelOrders(heapBooks[loc[t].book], Opposite(o.side), loc[t].best)
  IN /\ pc[t] = "m_inner"
     /\ IF Len(queue) > 0
        THEN LET rid == Head(queue)
                 tradeQuantity == TradeQuantity(o, orders[rid])
                 trade == createTrade(o.id, orders[rid].id, TradePrice(o, orders[rid]),
                                      tradeQuantity)
             IN /\ orders' = [orders EXCEPT ![order] = AddFill(@, tradeQuantity)]
                /\ allTrades' = Append(allTrades, trade)
                /\ loc' = [loc EXCEPT ![t].trades = Append(@, trade),
                                      ![t].rest = rid, ![t].tq = tradeQuantity]
                /\ pc' = [pc EXCEPT ![t] = "m_fillR"]
        ELSE /\ pc' = [pc EXCEPT ![t] = "m_outer"]
             /\ UNCHANGED <<orders, allTrades, loc>>
     /\ UNCHANGED <<orderStore, Books, Locks, heapBooks, heapLocks, globalMutex,
                    orderStoreMutex, before, cancelled>>

\* resting.FilledQuantity += tradeQuantity
m_fillR(t) ==
  /\ pc[t] = "m_fillR"
  /\ orders' = [orders EXCEPT ![loc[t].rest] = AddFill(@, loc[t].tq)]
  /\ pc' = [pc EXCEPT ![t] = "m_statR"]
  /\ UNCHANGED <<orderStore, Books, Locks, heapBooks, heapLocks, globalMutex,
                 orderStoreMutex, loc, allTrades, before, cancelled>>

\* The resting order's new status: FILLED and removed from the book when nothing
\* remains, else PARTIAL_FILL; then return when the aggressor is complete.
\* The write of Status can overlap CancelOrder's.
m_statR(t) ==
  LET order == loc[t].order
      rid == loc[t].rest
      r == orders[rid]
  IN /\ pc[t] = "m_statR"
     /\ IF RemainingQuantity(r) = 0
        THEN \E s \in Stored(t, rid, StatusFilled) :
               /\ orders' = [orders EXCEPT ![rid].status = s, ![rid].element = FALSE]
               /\ heapBooks' = [heapBooks EXCEPT ![loc[t].book] = removeOrder(@, rid, r)]
               /\ loc' = Lapping([loc EXCEPT ![t].filledOrders = Append(@, rid)],
                                 t, rid)
        ELSE \E s \in Stored(t, rid, StatusPartialFill) :
               /\ orders' = [orders EXCEPT ![rid].status = s]
               /\ loc' = Lapping(loc, t, rid)
               /\ heapBooks' = heapBooks
     /\ pc' = [pc EXCEPT ![t] =
                 IF RemainingQuantity(orders[order]) = 0 THEN "p_post" ELSE "m_inner"]
     /\ UNCHANGED <<orderStore, Books, Locks, heapLocks, globalMutex,
                    orderStoreMutex, allTrades, before, cancelled>>

\* ------------------------------------------------------- ProcessOrder (after matching)
\* Whether ProcessOrder inserts the order into the book.
Rests(o) == o.type = Limit /\ RemainingQuantity(o) > 0

\* Mutant: an incoming order that was filled completely is left PARTIAL_FILL.
StatusAfterMatchPartial(o) == IF o.filled > 0 THEN StatusPartialFill ELSE o.status

\* The incoming order's status after matching.
StatusAfterMatch(o) ==
  IF Rests(o)
  THEN (IF o.filled > 0 THEN StatusPartialFill ELSE o.status)
  ELSE (IF RemainingQuantity(o) = 0 THEN StatusFilled ELSE o.status)

\* Insert a LIMIT remainder, set the status, return the response; SubmitOrder
\* returns it and its deferred lock.Unlock() runs.  The write of Status, when
\* there is one, can overlap CancelOrder's.
p_post(t) ==
  LET order == loc[t].order
      o == orders[order]
  IN /\ pc[t] = "p_post"
     /\ \E s \in IF PostWrites(o) THEN Stored(t, order, StatusAfterMatch(o))
                  ELSE {o.status} :
          /\ IF Rests(o)
             THEN /\ heapBooks' = [heapBooks EXCEPT ![loc[t].book] = addOrder(@, order, o)]
                  /\ orders' = [orders EXCEPT ![order].element = TRUE,
                                              ![order].status = s]
             ELSE /\ heapBooks' = heapBooks
                  /\ orders' = [orders EXCEPT ![order].status = s]
          /\ LET l == [loc EXCEPT ![t].inBook = Rests(o), ![t].res = "ok",
                                   ![t].atLock = <<>>]
             IN loc' = IF PostWrites(o) THEN Lapping(l, t, order) ELSE l
     /\ heapLocks' = [heapLocks EXCEPT ![loc[t].lock] = Unlock(@)]
     /\ pc' = [pc EXCEPT ![t] = Returned(loc[t])]
     /\ before' = [before EXCEPT ![order].ok = TRUE]
     /\ UNCHANGED <<orderStore, Books, Locks, globalMutex, orderStoreMutex,
                    allTrades, cancelled>>

\* ------------------------------------------------------- SubmitOrder run without interruption
\* matchBuyOrder / matchSellOrder run from the loop head to their return on
\* the book b and the orders os: the book, the orders and the trades at the
\* return.
RECURSIVE matchOrder(_, _, _, _)
matchOrder(b, os, order, trades) ==
  LET o == os[order]
      tree == TreeOf(b, Opposite(o.side))
      stop == [book |-> b, orders |-> os, trades |-> trades]
  IN IF RemainingQuantity(o) > 0 /\ tree # {}
     THEN LET best == TreeMin(tree, Opposite(o.side))
              rid == Head(LevelOrders(b, Opposite(o.side), best))
              tradeQuantity == TradeQuantity(o, os[rid])
              trade == createTrade(o.id, os[rid].id, TradePrice(o, os[rid]),
                                   tradeQuantity)
              os1 == [os EXCEPT ![order] = AddFill(@, tradeQuantity),
                                ![rid] = AddFill(@, tradeQuantity)]
              gone == RemainingQuantity(os1[rid]) = 0
              os2 == IF gone
                     THEN [os1 EXCEPT ![rid].status = StatusFilled,
                                      ![rid].element = FALSE]
                     ELSE [os1 EXCEPT ![rid].status = StatusPartialFill]
              b2 == IF gone THEN removeOrder(b, rid, os1[rid]) ELSE b
          IN IF o.type = Limit /\ NoCross(o, best)
             THEN stop
             ELSE matchOrder(b2, os2, order, Append(trades, trade))
     ELSE stop

\* ProcessOrder run from its first statement to its return.
ProcessOrder(b, os, order) ==
  LET m == matchOrder(b, os, order, <<>>)
      o == m.orders[order]
  IN IF Rests(o)
     THEN [book |-> addOrder(m.book, order, o),
           orders |-> [m.orders EXCEPT ![order].element = TRUE,
                                       ![order].status = StatusAfterMatch(o)],
           trades |-> m.trades, inBook |-> TRUE, res |-> "ok"]
     ELSE [book |-> m.book,
           orders |-> [m.orders EXCEPT ![order].status = StatusAfterMatch(o)],
           trades |-> m.trades, inBook |-> FALSE, res |-> "ok"]

\* SubmitOrder from the acquisition of the symbol's lock to its return: the
\* MARKET pre-check, then ProcessOrder.
SubmitLocked(b, os, order) ==
  IF os[order].type = Market /\ ~checkMarketOrderLiquidity(b, os[order], os)[2]
  THEN [book |-> b, orders |-> os, trades |-> <<>>, inBook |-> FALSE,
        res |-> "insufficient"]
  ELSE ProcessOrder(b, os, order)

\* ------------------------------------------------------- CancelOrder
CallCancel(t, orderID) ==
  /\ Free(t)
  /\ loc' = Called(t, [IdleLoc EXCEPT !.op = "cancel", !.id = orderID,
                                      !.late = orderID \in cancelled])
  /\ pc' = [pc EXCEPT ![t] = "c_check"]
  /\ UNCHANGED <<orders, orderStore, Books, Locks, heapBooks, heapLocks,
                 globalMutex, orderStoreMutex, allTrades, before, cancelled>>

\* The value goroutine u, which is at a write of the Status of order, writes.
WriteValue(u, order) ==
  CASE pc[u] = "c_mark" -> StatusCancelled
    [] pc[u] = "m_statR" ->
         IF RemainingQuantity(orders[order]) = 0 THEN StatusFilled ELSE StatusPartialFill
    [] OTHER -> StatusAfterMatch(orders[order])

\* The values a read of the order's Status can yield: the value in memory, or
\* a torn string when the read overlaps the write of another value, that is,
\* when a goroutine that shares no lock with the reader is at such a write.
StatusReads(order) ==
  {orders[order].status} \cup
  IF \E u \in Threads :
       AtWrite(u, order) /\ WriteValue(u, order) # orders[order].status
  THEN {Torn} ELSE {}

\* The status test of CancelOrder.
IsTerminal(status) == status = StatusFilled \/ status = StatusCancelled

\* me.orderStoreMutex.Lock(); look the id up; unknown: Unlock, "order not
\* found"; status FILLED or CANCELLED: Unlock, "cannot cancel order already
\* filled or cancelled"; else go on with the lock held.  The status is read
\* while the matcher, which holds the symbol's lock only, may be writing it.
c_check(t) ==
  LET id == loc[t].id
  IN /\ pc[t] = "c_check"
     /\ CanLock(orderStoreMutex)
     /\ IF id \notin DOMAIN orderStore
        THEN /\ orderStoreMutex' = Unlock(Lock(orderStoreMutex, t))
             /\ loc' = [loc EXCEPT ![t].res = "not_found"]
             /\ pc' = [pc EXCEPT ![t] = "done"]
        ELSE \E s \in StatusReads(orderStore[id]) :
          IF IsTerminal(s)
          THEN /\ orderStoreMutex' = Unlock(Lock(orderStoreMutex, t))
               /\ loc' = [loc EXCEPT ![t].res = "terminal", ![t].order = orderStore[id]]
               /\ pc' = [pc EXCEPT ![t] = "done"]
          ELSE /\ orderStoreMutex' = Lock(orderStoreMutex, t)
               /\ loc' = [loc EXCEPT ![t].order = orderStore[id]]
               /\ pc' = [pc EXCEPT ![t] = "c_mark"]
     /\ UNCHANGED <<orders, orderStore, Books, Locks, heapBooks, heapLocks,
                    globalMutex, allTrades, before, cancelled>>

\* order.Status = StatusCancelled; Unlock; then getBookAndLock(order.Symbol).
\* The write can overlap the matcher's, which holds the symbol's lock only.
c_mark(t) ==
  LET order == loc[t].order
  IN /\ pc[t] = "c_mark"
     /\ \E s \in Stored(t, order, StatusCancelled) :
          /\ orders' = [orders EXCEPT ![order].status = s]
          /\ loc' = Lapping([loc EXCEPT ![t].sym = orders[order].sym], t, order)
     /\ orderStoreMutex' = Unlock(orderStoreMutex)
     /\ pc' = [pc EXCEPT ![t] = "gbl_read"]
     /\ UNCHANGED <<orderStore, Books, Locks, heapBooks, heapLocks, globalMutex,
                    allTrades, before, cancelled>>

\* OrderBook.CancelOrder: element, exists := ob.orderMap[orderID]; remove the
\* order of that element when there is one.
bookCancelOrder(b, orderID, os) ==
  IF orderID \in DOMAIN b.orderMap
  THEN removeOrder(b, b.orderMap[orderID], os[b.orderMap[orderID]])
  ELSE b

\* lock.Lock() on the symbol's mutex; book.CancelOrder(order.ID); return
\* order, a pointer to the engine's Order; the deferred lock.Unlock() runs.
c_remove(t) ==
  LET id == orders[loc[t].order].id
      b == heapBooks[loc[t].book]
  IN /\ pc[t] = "c_remove"
     /\ CanLock(heapLocks[loc[t].lock])
     /\ heapBooks' = [heapBooks EXCEPT ![loc[t].book] = bookCancelOrder(@, id, orders)]
     /\ orders' = IF id \in DOMAIN b.orderMap
                  THEN [orders EXCEPT ![b.orderMap[id]].element = FALSE]
                  ELSE orders
     /\ heapLocks' = [heapLocks EXCEPT ![loc[t].lock] = Unlock(Lock(@, t))]
     /\ loc' = [loc EXCEPT ![t].res = "ok"]
     /\ pc' = [pc EXCEPT ![t] = "c_read"]
     /\ cancelled' = cancelled \cup {id}
     /\ UNCHANGED <<orderStore, Books, Locks, globalMutex, orderStoreMutex,
                    allTrades, before>>

\* The caller of CancelOrder reads the Status of the Order it was handed,
\* holding no lock.
c_read(t) ==
  /\ pc[t] = "c_read"
  /\ \E s \in StatusReads(loc[t].order) : loc' = [loc EXCEPT ![t].status = s]
  /\ pc' = [pc EXCEPT ![t] = "done"]
  /\ UNCHANGED <<orders, orderStore, Books, Locks, heapBooks, heapLocks,
                 globalMutex, orderStoreMutex, allTrades, before, cancelled>>

\* ------------------------------------------------------- GetOrderStatus
CallGetOrderStatus(t, orderID) ==
  /\ Free(t)
  /\ loc' = [loc EXCEPT ![t] = [IdleLoc EXCEPT !.op = "status", !.id = orderID]]
  /\ pc' = [pc EXCEPT ![t] = "g_lookup"]
  /\ UNCHANGED <<orders, orderStore, Books, Locks, heapBooks, heapLocks,
                 globalMutex, orderStoreMutex, allTrades, before, cancelled>>

\* Mutant: the lookup finds only orders that are neither filled nor cancelled.
FoundActive(store, os, orderID) ==
  orderID \in DOMAIN store /\ ~IsTerminal(os[store[orderID]].status)

\* order, ok := me.orderStore[orderID]
Found(store, os, orderID) == orderID \in DOMAIN store

\* The value a field of the copy has while it has not been read yet.
NotRead == [filled |-> 0 - 1, status |-> ""]

\* me.orderStoreMutex.RLock(); look the id up; unknown: "order not found" and
\* the deferred RUnlock.  Known: orderCopy := *order begins.  The copy is not
\* atomic with respect to the matcher, which writes the order under the symbol
\* lock: FilledQuantity and Status are read one after the other, in an order
\* the build decides, and the read of Status can overlap the matcher's write.
g_lookup(t) ==
  LET id == loc[t].id
  IN /\ pc[t] = "g_lookup"
     /\ CanRLock(orderStoreMutex)
     /\ IF ~Found(orderStore, orders, id)
        THEN /\ orderStoreMutex' = RUnlock(RLock(orderStoreMutex, t), t)
             /\ loc' = [loc EXCEPT ![t].res = "not_found"]
             /\ pc' = [pc EXCEPT ![t] = "done"]
        ELSE /\ orderStoreMutex' = RLock(orderStoreMutex, t)
             /\ \/ loc' = [loc EXCEPT ![t].order = orderStore[id],
                                       ![t].filled = orders[orderStore[id]].filled,
                                       ![t].status = NotRead.status]
                \/ \E s \in StatusReads(orderStore[id]) :
                     loc' = [loc EXCEPT ![t].order = orderStore[id],
                                        ![t].status = s,
                                        ![t].filled = NotRead.filled]
             /\ pc' = [pc EXCEPT ![t] = "g_copy"]
     /\ UNCHANGED <<orders, orderStore, Books, Locks, heapBooks, heapLocks,
                    globalMutex, allTrades, before, cancelled>>

\* The rest of the copy; return &orderCopy, nil; the deferred RUnlock runs.
g_copy(t) ==
  LET id == loc[t].order
  IN /\ pc[t] = "g_copy"
     /\ orderStoreMutex' = RUnlock(orderStoreMutex, t)
     /\ \E s \in StatusReads(id) :
          loc' = [loc EXCEPT
            ![t].filled = IF @ = NotRead.filled THEN orders[id].filled ELSE @,
            ![t].status = IF @ = NotRead.status THEN s ELSE @,
            ![t].res = "ok"]
     /\ pc' = [pc EXCEPT ![t] = "done"]
     /\ UNCHANGED <<orders, orderStore, Books, Locks, heapBooks, heapLocks,
                    globalMutex, allTrades, before, cancelled>>

\* ------------------------------------------------------- GetOrderBookSnapshot
Depths == 0..MaxDepth

\* The caller's first statement is getBookAndLock(symbol).  History: rep and
\* the prev fields keep the result of the goroutine's previous call when that
\* was a Snapshot of the same symbol and depth and no Submit or Cancel was in
\* progress or called since it began.
CallSnapshot(t, symbol, depth) ==
  /\ Free(t)
  /\ loc' = [loc EXCEPT ![t] =
        [IdleLoc EXCEPT
           !.op = "snapshot", !.sym = symbol, !.depth = depth,
           !.quiet = \A u \in Threads \ {t} : Free(u),
           !.rep = /\ loc[t].op = "snapshot" /\ loc[t].sym = symbol
                   /\ loc[t].depth = depth /\ loc[t].quiet
                   /\ \A u \in Threads \ {t} : Free(u),
           !.prevBids = loc[t].bids, !.prevAsks = loc[t].asks]]
  /\ pc' = [pc EXCEPT ![t] = "gbl_read"]
  /\ UNCHANGED <<orders, orderStore, Books, Locks, heapBooks, heapLocks,
                 globalMutex, orderStoreMutex, allTrades, before, cancelled>>

\* The inner loop of the walk: the sum of the remaining quantities of a level.
RECURSIVE LevelTotal(_, _)
LevelTotal(queue, os) ==
  IF queue = <<>> THEN 0
  ELSE RemainingQuantity(os[Head(queue)]) + LevelTotal(Tail(queue), os)

\* Mutant: the depth test lets one level too many through.
RECURSIVE WalkOffByOne(_, _, _, _, _, _)
WalkOffByOne(prices, b, side, os, depth, count) ==
  IF prices = <<>> \/ (depth > 0 /\ count > depth) THEN <<>>
  ELSE LET totalQuantity == LevelTotal(LevelOrders(b, side, Head(prices)), os)
       IN IF totalQuantity > 0
          THEN <<[price |-> Head(prices), quantity |-> totalQuantity]>>
               \o WalkOffByOne(Tail(prices), b, side, os, depth, count + 1)
          ELSE WalkOffByOne(Tail(prices), b, side, os, depth, count)

\* The Ascend callback over the levels still to visit: stop when depth > 0 and
\* count >= depth; append the level and count it when its total is > 0.
RECURSIVE Walk(_, _, _, _, _, _)
Walk(prices, b, side, os, depth, count) ==
  IF prices = <<>> \/ (depth > 0 /\ count >= depth) THEN <<>>
  ELSE LET totalQuantity == LevelTotal(LevelOrders(b, side, Head(prices)), os)
       IN IF totalQuantity > 0
          THEN <<[price |-> Head(prices), quantity |-> totalQuantity]>>
               \o Walk(Tail(prices), b, side, os, depth, count + 1)
          ELSE Walk(Tail(prices), b, side, os, depth, count)

\* One side of the snapshot of book b.
SnapshotSide(b, side, os, depth) ==
  Walk(Ascend(TreeOf(b, side), side), b, side, os, depth, 0)

\* lock.RLock(); nil book: return nothing; else walk the asks, then the bids;
\* return; the deferred lock.RUnlock() runs.
n_walk(t) ==
  /\ pc[t] = "n_walk"
  /\ CanRLock(heapLocks[loc[t].lock])
  /\ heapLocks' = [heapLocks EXCEPT ![loc[t].lock] = RUnlock(RLock(@, t), t)]
  /\ IF loc[t].book = 0
     THEN loc' = [loc EXCEPT ![t].res = "ok"]
     ELSE LET b == heapBooks[loc[t].book]
          IN loc' = [loc EXCEPT
               ![t].asks = SnapshotSide(b, Sell, orders, loc[t].depth),
               ![t].bids = SnapshotSide(b, Buy, orders, loc[t].depth),
               ![t].res = "ok"]
  /\ pc' = [pc EXCEPT ![t] = "done"]
  /\ UNCHANGED <<orders, orderStore, Books, Locks, heapBooks, globalMutex,
                 orderStoreMutex, allTrades, before, cancelled>>

\* ------------------------------------------------------- POST /api/v1/orders
\* The strings a request carries as side and as type, the identifiers a client
\* sends (0 stands for the absent or empty id) and the numbers it sends.
RawSides == {"BUY", "sell", "HOLD"}
RawTypes == {"LIMIT", " market ", "STOP"}
RawSymbols == {"", "AAPL"}
RawIds == 0..HttpIds
RawPrices == (0 - 1)..HttpPrice
RawQuantities == (0 - 1)..HttpQty

\* The bodies of POST requests: decoded tells whether the JSON decoder accepted
\* the body (well-formed, no unknown field); the other fields are the decoded
\* createOrderRequest.
Requests ==
  [decoded : BOOLEAN, id : RawIds, symbol : RawSymbols, side : RawSides,
   type : RawTypes, price : RawPrices, quantity : RawQuantities]

\* strings.ToUpper(strings.TrimSpace(s)) on the strings above.
ToUpperTrimSpace(s) ==
  CASE s = "sell" -> "SELL"
    [] s = " market " -> "MARKET"
    [] OTHER -> s

\* parseSide: the Side and whether there is no error.
parseSide(s) ==
  LET u == ToUpperTrimSpace(s)
  IN CASE u = Buy -> [v |-> Buy, ok |-> TRUE]
       [] u = Sell -> [v |-> Sell, ok |-> TRUE]
       [] OTHER -> [v |-> "", ok |-> FALSE]

\* parseOrderType: the OrderType and whether there is no error.
parseOrderType(s) ==
  LET u == ToUpperTrimSpace(s)
  IN CASE u = Limit -> [v |-> Limit, ok |-> TRUE]
       [] u = Market -> [v |-> Market, ok |-> TRUE]
       [] OTHER -> [v |-> "", ok |-> FALSE]

\* The message of the first validation that fails, "" when none does.
ValidationError(req) ==
  CASE ~req.decoded -> "Invalid json"
    [] req.symbol = "" -> "Invalid order: symbol is required"
    [] req.quantity <= 0 -> "Invalid order: quantity must be positive"
    [] ~parseOrderType(req.type).ok -> "Invalid order: invalid type; must be LIMIT or MARKET"
    [] ~parseSide(req.side).ok -> "Invalid order: invalid side; must be BUY or SELL"
    [] parseOrderType(req.type).v = Limit /\ req.price <= 0 ->
         "Invalid order: price must be > 0 for limit orders"
    [] OTHER -> ""

\* uuid.New(): an identifier no client sends and no earlier call produced.
UuidNew(os) == HttpIds + Len(os) + 1

\* id := req.ID; if id == "" { id = uuid.New().String() }
RequestId(req, os) == IF req.id = 0 THEN UuidNew(os) ELSE req.id

\* createOrder up to the call of SubmitOrder: a request that fails a validation
\* is answered 400 with the message; any other becomes an Order handed to the
\* engine.
createOrder(t, req) ==
  IF ValidationError(req) # ""
  THEN /\ Free(t)
       /\ loc' = [loc EXCEPT ![t] = [IdleLoc EXCEPT !.op = "post", !.http = TRUE,
                                                    !.code = 400,
                                                    !.res = ValidationError(req)]]
       /\ pc' = [pc EXCEPT ![t] = "done"]
       /\ UNCHANGED <<orders, orderStore, Books, Locks, heapBooks, heapLocks,
                      globalMutex, orderStoreMutex, allTrades, before, cancelled>>
  ELSE SubmitOrder(t, RequestId(req, orders), req.symbol, parseSide(req.side).v,
                   parseOrderType(req.type).v, req.price, req.quantity, TRUE)

\* The switch on order.Status: 201, 202, 200, and 201 by default.
ResponseCode(status) ==
  CASE status = StatusAccepted -> 201
    [] status = StatusPartialFill -> 202
    [] status = StatusFilled -> 200
    [] OTHER -> 201

\* After SubmitOrder returned: an error is answered 400 with its message; else
\* the handler reads order.Status, holding no lock, and chooses the code.
h_respond(t) ==
  /\ pc[t] = "h_respond"
  /\ IF loc[t].res = "insufficient"
     THEN /\ loc' = [loc EXCEPT ![t].code = 400]
          /\ pc' = [pc EXCEPT ![t] = "done"]
     ELSE /\ \E s \in StatusReads(loc[t].order) :
               loc' = [loc EXCEPT ![t].code = ResponseCode(s)]
          /\ pc' = [pc EXCEPT ![t] = "h_encode"]
  /\ UNCHANGED <<orders, orderStore, Books, Locks, heapBooks, heapLocks,
                 globalMutex, orderStoreMutex, allTrades, before, cancelled>>

\* The body: order.Status is read from the order again, still without a
\* lock.  The 201 body has no other field of the order; trades are the trades
\* SubmitOrder returned.
h_encode(t) ==
  /\ pc[t] = "h_encode"
  /\ \E s \in StatusReads(loc[t].order) : loc' = [loc EXCEPT ![t].status = s]
  /\ pc' = [pc EXCEPT ![t] = IF loc[t].code = 201 THEN "done" ELSE "h_filled"]
  /\ UNCHANGED <<orders, orderStore, Books, Locks, heapBooks, heapLocks,
                 globalMutex, orderStoreMutex, allTrades, before, cancelled>>

\* The 202 and 200 bodies: filled_quantity is the next read of the order.
h_filled(t) ==
  /\ pc[t] = "h_filled"
  /\ loc' = [loc EXCEPT ![t].filled = orders[loc[t].order].filled]
  /\ pc' = [pc EXCEPT ![t] = IF loc[t].code = 202 THEN "h_remaining" ELSE "done"]
  /\ UNCHANGED <<orders, orderStore, Books, Locks, heapBooks, heapLocks,
                 globalMutex, orderStoreMutex, allTrades, before, cancelled>>

\* The 202 body: remaining_quantity is order.RemainingQuantity(), one more
\* read of the order.
h_remaining(t) ==
  /\ pc[t] = "h_remaining"
  /\ loc' = [loc EXCEPT ![t].remaining = RemainingQuantity(orders[loc[t].order])]
  /\ pc' = [pc EXCEPT ![t] = "done"]
  /\ UNCHANGED <<orders, orderStore, Books, Locks, heapBooks, heapLocks,
                 globalMutex, orderStoreMutex, allTrades, before, cancelled>>

\* ------------------------------------------------------- GET and DELETE .../orders/{id}
\* The two patterns registered for handleOrderByID.
RoutePrefixes == {"/orders/", "/api/v1/orders/"}

\* A URL path: one of the prefixes followed by the text {id}; {id} is numbered
\* like the identifiers clients send, 0 being the empty text.
Paths == RoutePrefixes \X RawIds

\* The methods of the requests.
Methods == {"GET", "DELETE", "PUT"}

\* Identifiers are strings and the model numbers them: a client's identifier
\* has a positive number, and the string made of "/api/v1/orders/" followed by
\* the identifier k has the number -(k + 1).
WholePath(path) == 0 - (path[2] + 1)

\* strings.TrimPrefix(r.URL.Path, prefix): the text after the prefix when the
\* path starts with it, else the path as it is.  None of the paths served
\* under "/api/v1/orders/" starts with "/orders/".
TrimPrefix(path, prefix) == IF path[1] = prefix THEN path[2] ELSE WholePath(path)

\* getOrder: the call s.eng.GetOrderStatus(id).
getOrder(t, path, id) ==
  /\ Free(t)
  /\ loc' = [loc EXCEPT ![t] = [IdleLoc EXCEPT !.op = "status", !.id = id,
                                               !.path = path]]
  /\ pc' = [pc EXCEPT ![t] = "g_lookup"]
  /\ UNCHANGED <<orders, orderStore, Books, Locks, heapBooks, heapLocks,
                 globalMutex, orderStoreMutex, allTrades, before, cancelled>>

\* cancelOrder: the call s.eng.CancelOrder(id).
cancelOrder(t, path, id) ==
  /\ Free(t)
  /\ loc' = Called(t, [IdleLoc EXCEPT !.op = "cancel", !.id = id, !.path = path,
                                      !.late = id \in cancelled])
  /\ pc' = [pc EXCEPT ![t] = "c_check"]
  /\ UNCHANGED <<orders, orderStore, Books, Locks, heapBooks, heapLocks,
                 globalMutex, orderStoreMutex, allTrades, before, cancelled>>

\* handleOrderByID: the id is what TrimPrefix leaves of the path; an empty id
\* is answered 400 and a method other than GET and DELETE 405.
handleOrderByID(t, method, path) ==
  LET id == TrimPrefix(path, "/orders/")
  IN CASE id = 0 \/ method \notin {"GET", "DELETE"} ->
            /\ Free(t)
            /\ loc' = [loc EXCEPT ![t] =
                         [IdleLoc EXCEPT !.op = "byid", !.path = path,
                                         !.code = IF id = 0 THEN 400 ELSE 405]]
            /\ pc' = [pc EXCEPT ![t] = "done"]
            /\ UNCHANGED <<orders, orderStore, Books, Locks, heapBooks, heapLocks,
                           globalMutex, orderStoreMutex, allTrades, before,
                           cancelled>>
       [] id # 0 /\ method = "GET" -> getOrder(t, path, id)
       [] id # 0 /\ method = "DELETE" -> cancelOrder(t, path, id)

\* The code getOrder and cancelOrder answer with once the engine has returned
\* with result res: 404 for an unknown id, 400 for an order that cannot be
\* cancelled, else 200.
ByIdCode(res) ==
  CASE res = "not_found" -> 404
    [] res = "terminal" -> 400
    [] OTHER -> 200

\* ------------------------------------------------------- specifications
\* Goroutines are interchangeable: the first free one makes the next call.
FirstFree(t) == \A u \in Threads : Free(u) => t <= u

Submit(t) ==
  /\ FirstFree(t)
  /\ Len(orders) < MaxOrders
  /\ \E symbol \in Symbols, side \in {Buy, Sell}, quantity \in Quantities :
       \/ \E price \in Prices : CallSubmit(t, symbol, side, Limit, price, quantity)
       \/ CallSubmit(t, symbol, side, Market, 0, quantity)

Cancel(t) == FirstFree(t) /\ \E orderID \in OrderIds : CallCancel(t, orderID)

\* The steps of SubmitOrder, getBookAndLock included.
SubmitStep(t) ==
  \/ gbl_read(t) \/ gbl_create(t)
  \/ s_dir_put(t) \/ s_sym_lock(t) \/ s_reject(t)
  \/ m_outer(t) \/ m_inner(t) \/ m_fillR(t) \/ m_statR(t) \/ p_post(t)

Step(t) ==
  \/ SubmitStep(t)
  \/ c_check(t) \/ c_mark(t) \/ c_remove(t) \/ c_read(t)

\* Calls made one after the other: a call starts when no call is in progress.
Quiescent == \A t \in Threads : Free(t)

Next ==
  \E t \in Threads :
    \/ Quiescent /\ Submit(t)
    \/ Quiescent /\ Cancel(t)
    \/ Step(t)

Spec == Init /\ [][Next]_vars

GetOrderStatus(t) ==
  FirstFree(t) /\ \E orderID \in OrderIds : CallGetOrderStatus(t, orderID)

Snapshot(t) ==
  FirstFree(t) /\ \E symbol \in Symbols, depth \in Depths : CallSnapshot(t, symbol, depth)

QueryStep(t) == g_lookup(t) \/ g_copy(t) \/ n_walk(t)

\* Calls made one after the other, queries included.
NextQuery ==
  \E t \in Threads :
    \/ Quiescent /\ Len(orders) < QueryOrders /\ Submit(t)
    \/ Quiescent /\ Cancel(t)
    \/ Quiescent /\ GetOrderStatus(t)
    \/ Quiescent /\ Snapshot(t)
    \/ Step(t)
    \/ QueryStep(t)

SpecQuery == Init /\ [][NextQuery]_vars

\* Two symbols, used by concurrent goroutines.
SymSymbols == {"AAPL", "MSFT"}

SubmitSym(t) ==
  /\ FirstFree(t)
  /\ Len(orders) < SymOrders
  /\ \E symbol \in SymSymbols, side \in {Buy, Sell}, quantity \in 1..SymSize :
       \/ \E price \in 1..SymSize : CallSubmit(t, symbol, side, Limit, price, quantity)
       \/ CallSubmit(t, symbol, side, Market, 0, quantity)

CancelSym(t) == FirstFree(t) /\ \E orderID \in 1..SymOrders : CallCancel(t, orderID)

SnapshotSym(t) ==
  FirstFree(t) /\ \E symbol \in SymSymbols : CallSnapshot(t, symbol, 0)

NextSym ==
  \E t \in Threads :
    \/ SubmitSym(t)
    \/ CancelSym(t)
    \/ SnapshotSym(t)
    \/ Step(t)
    \/ n_walk(t)

SpecSym == Init /\ [][NextSym]_vars

\* Calls made by concurrent goroutines: a free goroutine calls at any time.
ConcStart(t) == Len(orders) < ConcOrders

NextConc ==
  \E t \in Threads :
    \/ ConcStart(t) /\ Submit(t)
    \/ Cancel(t)
    \/ Step(t)

SpecConc == Init /\ [][NextConc]_vars

\* Submit and GetOrderStatus called by concurrent goroutines.
StatusConc(t) ==
  FirstFree(t) /\ \E orderID \in 1..ConcOrders : CallGetOrderStatus(t, orderID)

NextStatus ==
  \E t \in Threads :
    \/ ConcStart(t) /\ Submit(t)
    \/ StatusConc(t)
    \/ SubmitStep(t)
    \/ g_lookup(t)
    \/ g_copy(t)

SpecStatus == Init /\ [][NextStatus]_vars

\* Submit, Cancel and GetOrderStatus called by concurrent goroutines.
SubmitObserve(t) ==
  /\ FirstFree(t)
  /\ Len(orders) < ConcOrders
  /\ \E symbol \in Symbols, side \in {Buy, Sell}, quantity \in 1..ObserveQty :
       \/ \E price \in 1..ObservePrice :
            CallSubmit(t, symbol, side, Limit, price, quantity)
       \/ CallSubmit(t, symbol, side, Market, 0, quantity)

CancelObserve(t) == FirstFree(t) /\ \E orderID \in 1..ConcOrders : CallCancel(t, orderID)

NextObserve ==
  \E t \in Threads :
    \/ SubmitObserve(t)
    \/ CancelObserve(t)
    \/ StatusConc(t)
    \/ Step(t)
    \/ g_lookup(t)
    \/ g_copy(t)

SpecObserve == Init /\ [][NextObserve]_vars

\* Submit and Snapshot called by concurrent goroutines.
SnapshotConc(t) ==
  FirstFree(t) /\ \E symbol \in Symbols : CallSnapshot(t, symbol, 0)

SubmitSerial(t) ==
  /\ FirstFree(t)
  /\ Len(orders) < SerialOrders
  /\ \E symbol \in Symbols, side \in {Buy, Sell}, quantity \in 1..SerialQty :
       \/ \E price \in 1..SerialPrice :
            CallSubmit(t, symbol, side, Limit, price, quantity)
       \/ CallSubmit(t, symbol, side, Market, 0, quantity)

NextSerial ==
  \E t \in Threads :
    \/ SubmitSerial(t)
    \/ SnapshotConc(t)
    \/ SubmitStep(t)
    \/ n_walk(t)

SpecSerial == Init /\ [][NextSerial]_vars

\* POST requests served by concurrent goroutines.
Post(t) ==
  /\ FirstFree(t)
  /\ Len(orders) < HttpOrders
  /\ \E req \in Requests : createOrder(t, req)

NextHttp ==
  \E t \in Threads :
    \/ Post(t)
    \/ SubmitStep(t)
    \/ h_respond(t)
    \/ h_encode(t)
    \/ h_filled(t)
    \/ h_remaining(t)

SpecHttp == Init /\ [][NextHttp]_vars

\* Requests on all routes, served one after the other.
PostRoute(t) == Quiescent /\ Post(t)

ByIdRoute(t) ==
  /\ Quiescent
  /\ FirstFree(t)
  /\ \E method \in Methods, path \in Paths : handleOrderByID(t, method, path)

NextRoute ==
  \E t \in Threads :
    \/ PostRoute(t)
    \/ ByIdRoute(t)
    \/ Step(t)
    \/ h_respond(t)
    \/ h_encode(t)
    \/ h_filled(t)
    \/ h_remaining(t)
    \/ g_lookup(t)
    \/ g_copy(t)

SpecRoute == Init /\ [][NextRoute]_vars

\* Submit, Cancel, GetOrderStatus and Snapshot called by concurrent goroutines
\* under fair scheduling.
SubmitLive(t) ==
  /\ FirstFree(t)
  /\ Len(orders) < LiveOrders
  /\ \E symbol \in Symbols, side \in {Buy, Sell}, quantity \in 1..LiveQty :
       \/ CallSubmit(t, symbol, side, Limit, 1, quantity)
       \/ CallSubmit(t, symbol, side, Market, 0, quantity)

CancelLive(t) == FirstFree(t) /\ \E orderID \in 1..LiveOrders : CallCancel(t, orderID)

StatusLive(t) ==
  FirstFree(t) /\ \E orderID \in 1..LiveOrders : CallGetOrderStatus(t, orderID)

\* A step of the call goroutine t is in.
Run(t) == Step(t) \/ g_lookup(t) \/ g_copy(t) \/ n_walk(t)

NextLive ==
  \E t \in Threads :
    \/ SubmitLive(t)
    \/ CancelLive(t)
    \/ StatusLive(t)
    \/ SnapshotConc(t)
    \/ Run(t)

\* The scheduler runs every goroutine that can run, and sync.RWMutex hands a
\* lock that is released again and again to a goroutine that keeps waiting for
\* it (a waiting writer holds new readers back, and readers that wait are let
\* in when the writer unlocks): a step that is enabled again and again is
\* taken.  Callers are not obliged to make further calls.
Fairness == \A t \in Threads : SF_vars(Run(t))

SpecLive == Init /\ [][NextLive]_vars /\ Fairness

\* POST requests that pass the validations and DELETE /orders/{id} requests,
\* served by concurrent goroutines.
PostValid(t) ==
  /\ FirstFree(t)
  /\ Len(orders) < HttpOrders
  /\ \E req \in {r \in Requests : ValidationError(r) = ""} : createOrder(t, req)

DeleteConc(t) ==
  FirstFree(t) /\ \E id \in RawIds : handleOrderByID(t, "DELETE", <<"/orders/", id>>)

NextServe ==
  \E t \in Threads :
    \/ PostValid(t)
    \/ DeleteConc(t)
    \/ Step(t)
    \/ h_respond(t)
    \/ h_encode(t)
    \/ h_filled(t)
    \/ h_remaining(t)

SpecServe == Init /\ [][NextServe]_vars

\* ======================================================= properties
Range(q) == {q[i] : i \in DOMAIN q}

\* The ids held by the price levels of a book, and of all books.
HeldIn(b) ==
  UNION ({Range(b.bidPriceMap[p]) : p \in DOMAIN b.bidPriceMap}
         \cup {Range(b.askPriceMap[p]) : p \in DOMAIN b.askPriceMap})
Held == UNION {HeldIn(heapBooks[i]) : i \in DOMAIN heapBooks}

\* Goroutine t emits a trade in this step (loc'[t].rest is the resting order).
TradeStep(t) == pc[t] = "m_inner" /\ pc'[t] = "m_fillR"

\* Goroutine t sets the status of the resting order it has just filled.
StatusStep(t) == pc[t] = "m_statR" /\ pc'[t] # "m_statR"

\* Two LIMIT orders of one symbol, side and price.
SameLevel(a, b) ==
  /\ orders[a].type = Limit /\ orders[b].type = Limit
  /\ orders[a].sym = orders[b].sym
  /\ orders[a].side = orders[b].side
  /\ orders[a].price = orders[b].price

\* C1 (time priority): when a trade is emitted against resting order B, every
\* LIMIT order A of the same symbol, side and price whose Submit had returned
\* before B's Submit was called has already left the book; and a resting order
\* that is only partially filled is still the head of its level's queue.
C1_TimePriority ==
  [][\A t \in Threads :
       /\ TradeStep(t) =>
            \A a \in before[loc'[t].rest].submitted :
              SameLevel(a, loc'[t].rest) => a \notin Held
       /\ (StatusStep(t) /\ RemainingQuantity(orders[loc[t].rest]) > 0) =>
            LET a == loc[t].rest
            IN Head(LevelOrders(heapBooks'[loc[t].book], orders[a].side,
                                orders[a].price)) = a
    ]_vars

\* C1 witness: an aggressor is trading against B after an earlier order A of
\* the same level was filled and removed.
C1_Witness ==
  \E t \in Threads :
    /\ pc[t] = "m_fillR"
    /\ \E a \in before[loc[t].rest].submitted :
         /\ SameLevel(a, loc[t].rest)
         /\ orders[a].status = StatusFilled
         /\ a \notin Held
         /\ \E i \in DOMAIN loc[t].trades : loc[t].trades[i].rest = a

\* p is a better resting price than q on the given side of the book.
Better(side, p, q) == IF side = Sell THEN p < q ELSE p > q

\* Trade prices of one Submit: non-decreasing for BUY, non-increasing for SELL.
Monotone(trades, side) ==
  \A i \in 1..(Len(trades) - 1) :
    IF side = Buy THEN trades[i].price <= trades[i + 1].price
                  ELSE trades[i].price >= trades[i + 1].price

\* C2 (price priority): the trade prices of one Submit are monotone from the
\* best price outward, and a trade is never made against a resting order while
\* the same side of the book holds an order at a better price with remaining > 0.
C2_PricePriority ==
  /\ [](\A t \in Threads :
          loc[t].op = "submit" => Monotone(loc[t].trades, orders[loc[t].id].side))
  /\ [][\A t \in Threads :
          TradeStep(t) =>
            LET r == loc'[t].rest
            IN \A x \in HeldIn(heapBooks[loc[t].book]) :
                 (orders[x].side = orders[r].side /\ RemainingQuantity(orders[x]) > 0)
                   => ~Better(orders[r].side, orders[x].price, orders[r].price)
       ]_vars

\* C2 witness: one Submit has traded at two different prices, the better one
\* first, although the order at the worse price arrived first.
C2_Witness ==
  \E t \in Threads :
    /\ Len(loc[t].trades) >= 2
    /\ loc[t].trades[1].price # loc[t].trades[2].price
    /\ loc[t].trades[2].rest < loc[t].trades[1].rest

\* C3: every trade ever emitted carries the price of the resting order it names.
C3_TradeAtRestingPrice ==
  \A i \in DOMAIN allTrades : allTrades[i].price = orders[allTrades[i].rest].price

\* C3 witness: a LIMIT aggressor traded at a price that is not its own, and a
\* MARKET aggressor traded too.
C3_Witness ==
  /\ \E i \in DOMAIN allTrades :
       /\ orders[allTrades[i].agg].type = Limit
       /\ orders[allTrades[i].agg].price # allTrades[i].price
  /\ \E i \in DOMAIN allTrades : orders[allTrades[i].agg].type = Market

\* The sum of the quantities of the trades that name id as aggressor or resting.
RECURSIVE TradedQty(_, _)
TradedQty(trades, id) ==
  IF trades = <<>> THEN 0
  ELSE (IF Head(trades).agg = id \/ Head(trades).rest = id THEN Head(trades).qty ELSE 0)
       + TradedQty(Tail(trades), id)

\* C4 (trade conservation): whenever no goroutine is between the two fill
\* writes of a trade (in particular after every operation), each order's filled
\* quantity is the sum of the quantities of the trades that name it.
C4_TradeConservation ==
  (\A t \in Threads : pc[t] # "m_fillR") =>
    \A id \in DOMAIN orders : TradedQty(allTrades, id) = orders[id].filled

\* C4 witness: between operations, an order filled by two trades, and a
\* cancelled order with a fill.
C4_Witness ==
  /\ Quiescent
  /\ \E id \in DOMAIN orders :
       /\ Cardinality({i \in DOMAIN allTrades :
                         allTrades[i].agg = id \/ allTrades[i].rest = id}) >= 2
       /\ orders[id].filled > 0
  /\ \E id \in cancelled : orders[id].filled > 0

\* C5 (CANCELLED is terminal): an order whose status is CANCELLED keeps that
\* status and its filled quantity in every later step, and the order a
\* successful Cancel returns has status CANCELLED.
C5_CancelledTerminal ==
  /\ [][\A id \in DOMAIN orders :
          orders[id].status = StatusCancelled =>
            /\ orders'[id].status = StatusCancelled
            /\ orders'[id].filled = orders[id].filled
       ]_vars
  /\ [](\A t \in Threads :
          (pc[t] = "done" /\ loc[t].op = "cancel" /\ loc[t].res = "ok")
            => loc[t].status = StatusCancelled)

\* C6: once a Cancel(x) has returned successfully, no price level holds x, and
\* no Submit called after that emits a trade against x.
C6_CancelDetaches ==
  /\ [](\A x \in cancelled : x \notin Held)
  /\ [][\A t \in Threads :
          TradeStep(t) => loc'[t].rest \notin before[loc[t].id].cancelled
       ]_vars

\* C7 (cancel idempotence; the claim's conclusion that at most one Cancel per
\* order ever succeeds): a Cancel(id) called after a Cancel(id) has returned
\* successfully does not succeed.
C7_AtMostOneCancelSucceeds ==
  \A t \in Threads :
    (pc[t] = "done" /\ loc[t].op = "cancel" /\ loc[t].late) => loc[t].res # "ok"

\* Goroutine t runs the lookup and status test of CancelOrder in this step.
CheckStep(t) == pc[t] = "c_check" /\ pc'[t] # "c_check"

\* No order field, no book and no directory entry changes in this step.
EngineUnchanged ==
  /\ orders' = orders
  /\ heapBooks' = heapBooks
  /\ Books' = Books
  /\ orderStore' = orderStore

\* C8: a Cancel of an id that is not in the directory returns order-not-found,
\* a Cancel of an order whose status is FILLED or CANCELLED returns
\* already-terminal, and either way the call ends there with no order, book or
\* directory entry changed.
C8_CancelErrors ==
  [][\A t \in Threads :
       CheckStep(t) =>
         /\ loc[t].id \notin DOMAIN orderStore =>
              /\ pc'[t] = "done" /\ loc'[t].res = "not_found"
              /\ EngineUnchanged
         /\ (loc[t].id \in DOMAIN orderStore
             /\ orders[loc[t].id].status \in {StatusFilled, StatusCancelled}) =>
              /\ pc'[t] = "done" /\ loc'[t].res = "terminal"
              /\ EngineUnchanged
    ]_vars

\* The sum of the remaining quantities of a set of orders.
RECURSIVE SumRemaining(_)
SumRemaining(ids) ==
  IF ids = {} THEN 0
  ELSE LET x == CHOOSE x \in ids : TRUE
       IN RemainingQuantity(orders[x]) + SumRemaining(ids \ {x})

\* What rests opposite to the order goroutine t is submitting.
OppositeSum(t) ==
  SumRemaining({x \in HeldIn(heapBooks[loc[t].book]) :
                  orders[x].side # orders[loc[t].id].side})

\* C9: a MARKET Submit takes the rejection path exactly when the remaining
\* quantities resting on the opposite side sum to less than its quantity, and
\* the error it returns carries that sum and the order's quantity.
C9_InsufficientLiquidity ==
  [][\A t \in Threads :
       /\ (pc[t] = "s_sym_lock" /\ pc'[t] # "s_sym_lock"
           /\ orders[loc[t].id].type = Market) =>
            (pc'[t] = "s_reject" <=> OppositeSum(t) < orders[loc[t].id].qty)
       /\ (loc'[t].res = "insufficient" /\ loc[t].res # "insufficient") =>
            /\ pc[t] = "s_reject"
            /\ loc'[t].total = OppositeSum(t)
            /\ loc'[t].req = orders[loc[t].id].qty
            /\ loc'[t].total < loc'[t].req
    ]_vars

\* C9 witness: a rejection that reports what remains of a partially filled
\* resting order, which is less than the quantity that order was entered with.
C9_Witness ==
  \E t \in Threads :
    /\ pc[t] = "done" /\ loc[t].res = "insufficient"
    /\ \E x \in HeldIn(heapBooks[loc[t].book]) :
         /\ orders[x].side # orders[loc[t].id].side
         /\ orders[x].filled > 0
         /\ loc[t].total = RemainingQuantity(orders[x])
         /\ loc[t].req <= orders[x].qty

\* The content of a symbol's book; a symbol without a book has an empty one.
BookContent(sym) ==
  IF sym \in DOMAIN Books THEN heapBooks[Books[sym]] ELSE NewOrderBook

\* Goroutine t takes a step of a MARKET Submit that has not (or not yet)
\* passed the liquidity check.
PreMatchStep(t) ==
  /\ loc[t].op = "submit"
  /\ pc[t] \in {"gbl_read", "gbl_create", "s_dir_put", "s_sym_lock", "s_reject"}
  /\ pc'[t] # pc[t]
  /\ orders[loc[t].id].type = Market

\* C10: no step of a MARKET Submit up to and including its rejection changes a
\* book's content or any order, and a rejected Submit has emitted no trade and
\* leaves its identifier out of the directory.
C10_RejectionFrame ==
  /\ [][\A t \in Threads :
          PreMatchStep(t) =>
            /\ orders' = orders
            /\ \A sym \in Symbols : BookContent(sym)' = BookContent(sym)
            /\ allTrades' = allTrades
       ]_vars
  /\ [](\A t \in Threads :
          (pc[t] = "done" /\ loc[t].res = "insufficient") =>
            /\ loc[t].trades = <<>>
            /\ \A i \in DOMAIN allTrades :
                 allTrades[i].agg # loc[t].id /\ allTrades[i].rest # loc[t].id
            /\ loc[t].id \notin DOMAIN orderStore)

\* C10 witness: a MARKET order was rejected while orders rest on both sides.
C10_Witness ==
  \E t \in Threads :
    /\ pc[t] = "done" /\ loc[t].res = "insufficient"
    /\ loc[t].total > 0
    /\ \E x \in HeldIn(heapBooks[loc[t].book]) :
         orders[x].side = orders[loc[t].id].side

\* The sum of the quantities of a sequence of trades.
RECURSIVE SumQty(_)
SumQty(trades) ==
  IF trades = <<>> THEN 0 ELSE Head(trades).qty + SumQty(Tail(trades))

\* Goroutine t returns from ProcessOrder and SubmitOrder in this step.
PostStep(t) == pc[t] = "p_post" /\ pc'[t] # "p_post"

\* C11: a MARKET order that passed the liquidity pre-check returns from Submit
\* completely filled (its trades sum to its quantity, its status is FILLED),
\* and no price level ever holds a MARKET order.
C11_MarketFillsCompletely ==
  /\ [][\A t \in Threads :
          (PostStep(t) /\ orders[loc[t].id].type = Market) =>
            /\ SumQty(loc'[t].trades) = orders[loc[t].id].qty
            /\ orders'[loc[t].id].filled = orders[loc[t].id].qty
            /\ orders'[loc[t].id].status = StatusFilled
            /\ ~loc'[t].inBook
       ]_vars
  /\ [](\A x \in Held : orders[x].type # Market)

\* The ids held by the level of o's own price on o's own side of book b.
OwnLevel(b, o) == Range(LevelOrders(b, o.side, o.price))

\* C12: when Submit of a LIMIT order returns, the order is held in its book, on
\* its own side and price, iff its remaining quantity is > 0; its status is
\* FILLED when nothing remains, PARTIAL_FILL when it rests after a fill and
\* ACCEPTED when it rests without a fill; the response's rests-in-book flag is
\* true iff the order was inserted.
C12_LimitOutcome ==
  [][\A t \in Threads :
       (PostStep(t) /\ orders[loc[t].id].type = Limit) =>
         LET id == loc[t].id
             o == orders'[id]
             b == heapBooks'[loc[t].book]
         IN /\ (id \in OwnLevel(b, o)) <=> (RemainingQuantity(o) > 0)
            /\ (id \in HeldIn(b)) <=> (id \in OwnLevel(b, o))
            /\ RemainingQuantity(o) = 0 => o.status = StatusFilled
            /\ (RemainingQuantity(o) > 0 /\ o.filled > 0) => o.status = StatusPartialFill
            /\ (RemainingQuantity(o) > 0 /\ o.filled = 0) => o.status = StatusAccepted
            /\ loc'[t].inBook <=> (id \in HeldIn(b) /\ id \notin HeldIn(heapBooks[loc[t].book]))
    ]_vars

\* Goroutine t runs the directory lookup of GetOrderStatus in this step.
LookupStep(t) == pc[t] = "g_lookup" /\ pc'[t] # "g_lookup"

\* C13: an order whose Submit returned without error is in the directory in
\* every later state, and every GetOrderStatus lookup of it finds it.
C13_DirectoryRetains ==
  /\ [](\A x \in DOMAIN orders :
          before[x].ok => (orders[x].id \in DOMAIN orderStore /\ orderStore[orders[x].id] = x))
  /\ [][\A t \in Threads :
          (LookupStep(t) /\ loc[t].id \in DOMAIN orders /\ before[loc[t].id].ok)
            => pc'[t] = "g_copy"
       ]_vars
  /\ [](\A t \in Threads :
          (pc[t] = "done" /\ loc[t].op = "status" /\ loc[t].id \in DOMAIN orders
           /\ before[loc[t].id].ok) => loc[t].res = "ok")

\* C13 witness: GetOrderStatus has returned the copy of an order that was
\* partially filled and then cancelled, while another order is FILLED.
C13_Witness ==
  \E t \in Threads :
    /\ pc[t] = "done" /\ loc[t].op = "status" /\ loc[t].res = "ok"
    /\ loc[t].status = StatusCancelled /\ loc[t].filled > 0
    /\ \E x \in DOMAIN orderStore : orders[orderStore[x]].status = StatusFilled

\* C14: GetOrderStatus of a resting order that an aggressor has filled
\* completely returns order-not-found.
C14_FilledNotFound ==
  \A t \in Threads :
    (/\ pc[t] = "done" /\ loc[t].op = "status"
     /\ loc[t].id \in DOMAIN orders
     /\ orders[loc[t].id].status = StatusFilled
     /\ \E i \in DOMAIN allTrades : allTrades[i].rest = loc[t].id)
      => loc[t].res = "not_found"

\* Goroutine t walks the book for a Snapshot in this step.
WalkStep(t) == pc[t] = "n_walk" /\ pc'[t] # "n_walk"

\* What the claim asks of one side of a snapshot: strictly ordered from the
\* best price outward, every entry a price level of that side carrying the sum
\* of the remaining quantities resting there, that sum > 0, the number of
\* entries min(depth, levels) when depth > 0 and else the number of levels,
\* and no level left out that is better than one returned.
GoodSide(result, b, side, depth) ==
  LET levels == TreeOf(b, side)
      returned == {result[i].price : i \in DOMAIN result}
  IN /\ \A i \in 1..(Len(result) - 1) :
          Better(side, result[i].price, result[i + 1].price)
     /\ \A i \in DOMAIN result :
          /\ result[i].price \in levels
          /\ result[i].quantity = SumRemaining(Range(LevelOrders(b, side, result[i].price)))
          /\ result[i].quantity > 0
     /\ Len(result) = IF depth > 0 THEN min(depth, Cardinality(levels))
                                   ELSE Cardinality(levels)
     /\ \A p \in levels \ returned, q \in returned : Better(side, q, p)

\* C15: the asks of a Snapshot are in strictly ascending and the bids in
\* strictly descending price order, one entry per price level with the sum of
\* the remaining quantities resting at that price, which is > 0; depth > 0
\* gives exactly the best min(depth, levels) levels of each side, depth 0 all.
C15_SnapshotContent ==
  [][\A t \in Threads :
       (WalkStep(t) /\ loc[t].book # 0) =>
         /\ GoodSide(loc'[t].asks, heapBooks[loc[t].book], Sell, loc[t].depth)
         /\ GoodSide(loc'[t].bids, heapBooks[loc[t].book], Buy, loc[t].depth)
    ]_vars

\* C15 witness: a Snapshot of depth 1 has returned only the better of two bid
\* levels, with the quantity aggregated from the two orders resting there.
C15_Witness ==
  \E t \in Threads :
    /\ pc[t] = "done" /\ loc[t].op = "snapshot" /\ loc[t].depth = 1
    /\ Len(loc[t].bids) = 1
    /\ Cardinality(heapBooks[loc[t].book].bids) = 2
    /\ Len(LevelOrders(heapBooks[loc[t].book], Buy, loc[t].bids[1].price)) = 2
    /\ loc[t].bids[1].quantity = MaxQty
    /\ \A p \in heapBooks[loc[t].book].bids : p <= loc[t].bids[1].price

\* Goroutine t takes a step of a Snapshot call.
SnapshotStep(t) ==
  loc[t].op = "snapshot" /\ pc[t] \in {"gbl_read", "gbl_create", "n_walk"} /\ pc'[t] # pc[t]

\* C16 (snapshot idempotence): no step of a Snapshot changes an order or the
\* content of a book, and a Snapshot that repeats the goroutine's previous
\* Snapshot (same symbol and depth), with no Submit or Cancel in progress or
\* called since that one began, returns what that one returned.
C16_SnapshotIdempotent ==
  /\ [][\A t \in Threads :
          SnapshotStep(t) =>
            /\ orders' = orders
            /\ \A sym \in SymSymbols : BookContent(sym)' = BookContent(sym)
       ]_vars
  /\ [](\A t \in Threads :
          (pc[t] = "done" /\ loc[t].op = "snapshot" /\ loc[t].rep /\ loc[t].quiet) =>
            /\ loc[t].bids = loc[t].prevBids
            /\ loc[t].asks = loc[t].prevAsks)

\* C16 witness: a repeated Snapshot of a book with a resting bid has returned.
C16_Witness ==
  \E t \in Threads :
    /\ pc[t] = "done" /\ loc[t].op = "snapshot" /\ loc[t].rep /\ loc[t].quiet
    /\ loc[t].bids # <<>>
    /\ loc[t].prevBids # <<>>

\* The symbol an operation in progress works on; "" when it has none.
OpSymbol(t) ==
  IF loc[t].op = "cancel"
  THEN (IF loc[t].id \in DOMAIN orders THEN orders[loc[t].id].sym ELSE "")
  ELSE loc[t].sym

\* Goroutines t and u run operations on two different symbols.
DifferentSymbols(t, u) ==
  /\ ~Free(t) /\ ~Free(u)
  /\ OpSymbol(t) # "" /\ OpSymbol(u) # ""
  /\ OpSymbol(t) # OpSymbol(u)

Holders(l) == l.w \cup l.r

\* The next step of t takes a per-symbol lock that u holds in a conflicting mode.
WaitsForSymbolLock(t, u) ==
  \/ pc[t] \in {"s_sym_lock", "c_remove"} /\ u \in Holders(heapLocks[loc[t].lock])
  \/ pc[t] = "n_walk" /\ u \in heapLocks[loc[t].lock].w

\* The next step of t takes the directory lock or the symbol-map lock, which u
\* holds in a conflicting mode.
WaitsForSharedLock(t, u) ==
  \/ pc[t] \in {"s_dir_put", "c_check", "s_reject"} /\ u \in Holders(orderStoreMutex)
  \/ pc[t] = "g_lookup" /\ u \in orderStoreMutex.w
  \/ pc[t] = "gbl_create" /\ u \in Holders(globalMutex)
  \/ pc[t] = "gbl_read" /\ u \in globalMutex.w

\* C17 as stated (symbol independence): no goroutine running an operation on
\* one symbol waits for a lock held by a goroutine running an operation on a
\* different symbol.
C17_NeverBlockedAcrossSymbols ==
  \A t, u \in Threads :
    DifferentSymbols(t, u) => ~(WaitsForSymbolLock(t, u) \/ WaitsForSharedLock(t, u))

\* C17 amended: no goroutine running an operation on one symbol waits for a
\* per-symbol lock held by a goroutine running an operation on a different
\* symbol, and two symbols never share a lock or a book.
C17_SymbolLocksIndependent ==
  /\ \A t, u \in Threads : DifferentSymbols(t, u) => ~WaitsForSymbolLock(t, u)
  /\ \A a, b \in DOMAIN Locks : a # b => Locks[a] # Locks[b]
  /\ \A a, b \in DOMAIN Books : a # b => Books[a] # Books[b]

\* C17 witness: one goroutine holds the lock of its symbol in the middle of
\* matching while another is about to take, and can take, the lock of a
\* different symbol.
C17_Witness ==
  \E t, u \in Threads :
    /\ DifferentSymbols(t, u)
    /\ pc[u] \in {"m_outer", "m_inner", "m_fillR", "m_statR", "p_post"}
    /\ u \in heapLocks[loc[u].lock].w
    /\ pc[t] = "s_sym_lock"
    /\ CanLock(heapLocks[loc[t].lock])

\* C18: in every reachable state, whatever the interleaving of Submit and
\* Cancel, every order of the directory has 0 <= filled <= original quantity.
C18_FilledWithinQuantity ==
  \A id \in DOMAIN orderStore :
    LET o == orders[orderStore[id]] IN 0 <= o.filled /\ o.filled <= o.qty

\* C18 witness: a trade was capped by the resting order, which is now filled
\* exactly to its quantity, while the aggressor wanted more; and an order
\* marked CANCELLED has been filled exactly to its quantity by a racing Submit.
C18_Witness ==
  /\ \E i \in DOMAIN allTrades :
       LET r == allTrades[i].rest
           a == allTrades[i].agg
       IN /\ r \in DOMAIN orderStore /\ a \in DOMAIN orderStore
          /\ orders[orderStore[r]].filled = orders[orderStore[r]].qty
          /\ orders[orderStore[a]].qty > allTrades[i].qty
  /\ \E id \in DOMAIN orderStore :
       LET o == orders[orderStore[id]]
       IN o.status = StatusCancelled /\ o.filled = o.qty

\* The handler hands a new order to the engine in this step.
HandOff == Len(orders') = Len(orders) + 1 /\ \E t \in Threads : loc'[t].http

\* What the core requires of an order handed to it after the orders os.
MeetsPreconditions(o, os) ==
  /\ o.sym # ""
  /\ o.qty > 0
  /\ o.side \in {Buy, Sell}
  /\ o.type \in {Limit, Market}
  /\ o.type = Limit => o.price > 0
  /\ \A x \in DOMAIN os : os[x].id # o.id

\* The handler answers goroutine t's request without calling the engine.
Refused(t) == loc'[t] # loc[t] /\ loc'[t].op = "post"

\* C19: every order the HTTP handler hands to the engine has a non-empty
\* symbol, a positive quantity, side BUY or SELL, type LIMIT or MARKET, a
\* price > 0 when LIMIT, and an identifier no earlier order carried; every
\* request it does not hand over is answered 400 and leaves the orders, the
\* directory, the books and the locks as they were.
C19_OnlyValidOrders ==
  [][/\ HandOff => MeetsPreconditions(orders'[Len(orders')], orders)
     /\ \A t \in Threads :
          Refused(t) =>
            /\ loc'[t].code = 400
            /\ UNCHANGED <<orders, orderStore, Books, Locks, heapBooks, heapLocks,
                           globalMutex, orderStoreMutex>>]_vars

\* The code the outcome of goroutine t's own Submit calls for: 400 for the
\* rejected MARKET order, 200 when the order was filled completely, 202 when
\* it rests after trading, 201 when it rests without a trade.
OwnOutcomeCode(l) ==
  CASE l.res = "insufficient" -> 400
    [] ~l.inBook -> 200
    [] l.trades # <<>> -> 202
    [] OTHER -> 201

\* C20: when the handler has answered a POST whose order it handed to the
\* engine, the code is 400 if the engine rejected the MARKET order, 200 if
\* the order was filled by its Submit, 202 if it rests partially filled and
\* 201 if it rests unfilled; a 202 answer reports the quantity of the trades
\* of that Submit as filled and the rest of the order's quantity as remaining,
\* and a 200 or 202 answer carries those trades.
C20_CodeIsOwnOutcome ==
  \A t \in Threads :
    (pc[t] = "done" /\ loc[t].http /\ loc[t].op = "submit") =>
      /\ loc[t].code = OwnOutcomeCode(loc[t])
      /\ loc[t].code = 202 =>
           /\ loc[t].filled = SumQty(loc[t].trades)
           /\ loc[t].remaining = orders[loc[t].order].qty - SumQty(loc[t].trades)
      /\ loc[t].code \in {200, 202} => loc[t].trades # <<>>

\* C21: a GET or DELETE request whose path is a registered prefix followed by
\* {id} reaches the engine with exactly {id} as the order identifier, whichever
\* of the two prefixes it came by; so when the directory holds an order with
\* that identifier the request is not answered 404.
C21_RoutesAddressSameOrder ==
  \A t \in Threads :
    (pc[t] = "done" /\ loc[t].op \in {"status", "cancel"} /\ loc[t].path # <<>>) =>
      /\ loc[t].id = loc[t].path[2]
      /\ loc[t].path[2] \in DOMAIN orderStore => ByIdCode(loc[t].res) # 404

\* No goroutine holds the lock of the symbol, in either mode.
SymbolLockFree(sym) == Holders(heapLocks[Locks[sym]]) = {}

\* C22: in every reachable state, whatever the interleaving of Submit and
\* Cancel, when no goroutine holds the lock of a symbol every order held in a
\* price level of its book has status ACCEPTED or PARTIAL_FILL and a remaining
\* quantity above 0.
C22_RestingOrdersLive ==
  \A sym \in DOMAIN Books :
    SymbolLockFree(sym) =>
      \A x \in HeldIn(heapBooks[Books[sym]]) :
        /\ orders[x].status \in {StatusAccepted, StatusPartialFill}
        /\ RemainingQuantity(orders[x]) > 0

\* Goroutine t writes CANCELLED to the order it is cancelling in this step.
MarkStep(t) == pc[t] = "c_mark" /\ pc'[t] # "c_mark"

\* C23: whatever Submit does concurrently, the order a Cancel writes CANCELLED
\* to is not FILLED and has a remaining quantity above 0 at the time of the
\* write: no Submit filled it completely after Cancel's status check.
C23_CancelAtomicWithFills ==
  [][\A t \in Threads :
       MarkStep(t) =>
         /\ orders[loc[t].order].status # StatusFilled
         /\ RemainingQuantity(orders[loc[t].order]) > 0
    ]_vars

\* Goroutine t is inside a call that concerns symbol sym: a Submit or Snapshot
\* for it, or a Cancel of an order of that symbol.
InProgressOn(t, sym) ==
  /\ ~Free(t)
  /\ \/ loc[t].sym = sym
     \/ /\ loc[t].op = "cancel"
        /\ loc[t].id \in DOMAIN orderStore
        /\ orders[orderStore[loc[t].id]].sym = sym

\* C24: in every reachable state, whatever the interleaving, when no call is
\* in progress on a symbol, (a) every order of that symbol for which no Cancel
\* succeeded has status FILLED exactly when its remaining quantity is 0, and
\* (b) no order of that symbol with status FILLED is held in a price level or
\* has a handle in the orderMap of the book.
C24_FilledIffNothingRemains ==
  \A sym \in Symbols :
    (\A t \in Threads : ~InProgressOn(t, sym)) =>
      \A x \in DOMAIN orders :
        orders[x].sym = sym =>
          /\ orders[x].id \notin cancelled =>
               (orders[x].status = StatusFilled <=> RemainingQuantity(orders[x]) = 0)
          /\ (orders[x].status = StatusFilled /\ sym \in DOMAIN Books) =>
               /\ x \notin HeldIn(heapBooks[Books[sym]])
               /\ \A k \in DOMAIN heapBooks[Books[sym]].orderMap :
                    heapBooks[Books[sym]].orderMap[k] # x

\* C24 witness: with no call in progress, an incoming order was filled
\* completely and is FILLED, and the resting order it traded with is held in
\* its level, partially filled, with status PARTIAL_FILL; neither was
\* cancelled, and a Cancel has succeeded on no order.
C24_Witness ==
  /\ \A t \in Threads : Free(t)
  /\ cancelled = {}
  /\ \E x, y \in DOMAIN orders :
       /\ orders[x].status = StatusFilled /\ RemainingQuantity(orders[x]) = 0
       /\ orders[y].status = StatusPartialFill /\ RemainingQuantity(orders[y]) > 0
       /\ y \in Held
       /\ \E i \in DOMAIN allTrades :
            allTrades[i].agg = orders[x].id /\ allTrades[i].rest = orders[y].id

\* The status an order that is not CANCELLED has between operations, given
\* its quantity and its filled quantity.
SettledStatus(quantity, filled) ==
  CASE filled = 0 -> StatusAccepted
    [] filled = quantity -> StatusFilled
    [] OTHER -> StatusPartialFill

\* C25: the copy a GetOrderStatus returns, also while a Submit is matching the
\* order, pairs a filled quantity with the status that belongs to it: unless
\* the status is CANCELLED, FILLED goes with remaining 0, PARTIAL_FILL with a
\* filled quantity strictly between 0 and the quantity, and ACCEPTED with
\* nothing filled.
C25_StatusCopyConsistent ==
  \A t \in Threads :
    (pc[t] = "done" /\ loc[t].op = "status" /\ loc[t].res = "ok"
       /\ loc[t].status # StatusCancelled) =>
      loc[t].status = SettledStatus(orders[loc[t].order].qty, loc[t].filled)

\* The Submit of order x has returned the insufficient-liquidity error to
\* some goroutine, which has made no call since.
RejectedSubmit(x) ==
  \E u \in Threads :
    /\ pc[u] = "done" /\ loc[u].op = "submit"
    /\ loc[u].order = x /\ loc[u].res = "insufficient"

\* C26: no GetOrderStatus returns a copy of, and no Cancel succeeds on, a
\* MARKET order whose Submit is rejected for insufficient liquidity, at
\* whatever point of that Submit they run.
C26_RejectedNeverObserved ==
  \A t \in Threads :
    (pc[t] = "done" /\ loc[t].op \in {"status", "cancel"} /\ loc[t].res = "ok") =>
      ~RejectedSubmit(loc[t].order)

\* A LIMIT order o may trade at the opposite price p: a BUY at asks priced at
\* most its price, a SELL at bids priced at least its price.
Crosses(o, p) == IF o.side = Buy THEN p <= o.price ELSE p >= o.price

\* Goroutine t is matching its order (between taking the symbol lock and
\* returning from ProcessOrder).
Matching(t) ==
  loc[t].op = "submit" /\ pc[t] \in {"m_outer", "m_inner", "m_fillR", "m_statR", "p_post"}

\* C27: for a LIMIT order o submitted by goroutine t, in the calls made one
\* after the other, (a) every trade it makes is against a resting order whose
\* price crosses (ask <= P for a BUY priced P, bid >= P for a SELL); (b) when
\* its Submit returns with a remainder, no opposite level that crosses is left,
\* so a level priced exactly P has been traded with; (c) no step of its
\* matching changes the queue, or any order, of an opposite level that does
\* not cross.
C27_LimitPriceRespected ==
  [][\A t \in Threads :
       LET o == orders[loc[t].order]
           b == heapBooks[loc[t].book]
           opp == Opposite(o.side)
       IN (Matching(t) /\ o.type = Limit) =>
            /\ TradeStep(t) => Crosses(o, orders[loc'[t].rest].price)
            /\ (PostStep(t) /\ RemainingQuantity(o) > 0) =>
                 \A p \in TreeOf(b, opp) : ~Crosses(o, p)
            /\ \A p \in TreeOf(b, opp) :
                 ~Crosses(o, p) =>
                   /\ LevelOrders(heapBooks'[loc[t].book], opp, p) = LevelOrders(b, opp, p)
                   /\ \A x \in Range(LevelOrders(b, opp, p)) : orders'[x] = orders[x]
    ]_vars

\* C27 witness: a LIMIT BUY has returned from Submit after trading at exactly
\* its own price; it rests with a remainder, and an ask level priced above it
\* is still in the book with its order unfilled.
C27_Witness ==
  \E t \in Threads :
    /\ pc[t] = "done" /\ loc[t].op = "submit" /\ loc[t].res = "ok"
    /\ LET o == orders[loc[t].order]
           b == heapBooks[loc[t].book]
       IN /\ o.type = Limit /\ o.side = Buy
          /\ loc[t].trades # <<>>
          /\ \A i \in DOMAIN loc[t].trades : loc[t].trades[i].price = o.price
          /\ loc[t].inBook /\ RemainingQuantity(o) > 0
          /\ \E p \in b.asks :
               /\ p > o.price
               /\ \A x \in Range(LevelOrders(b, Sell, p)) : orders[x].filled = 0

\* Goroutine t returns from SubmitOrder in this step, with or without error.
SubmitReturns(t) ==
  loc[t].op = "submit" /\ pc[t] \in {"p_post", "s_reject"} /\ pc'[t] # pc[t]

\* Goroutine u is in a Submit on symbol sym, between the acquisition of the
\* symbol's lock and the return.
Applying(u, sym) ==
  /\ loc[u].op = "submit" /\ loc[u].sym = sym
  /\ pc[u] \in {"m_outer", "m_inner", "m_fillR", "m_statR", "p_post", "s_reject"}

\* C28: when Submits and Snapshots run concurrently, (a) every Submit returns
\* the trades, the error and the rests-in-book flag, and leaves the book and
\* every order, exactly as SubmitOrder run without interruption on the book
\* and orders found when it acquired the symbol's lock would; so the whole
\* execution equals the Submits run one at a time in lock order; (b) a
\* Snapshot walks the book only while no Submit on the symbol is between its
\* lock acquisition and its return.
C28_SubmitsSerialized ==
  [][\A t \in Threads :
       /\ SubmitReturns(t) =>
            LET r == SubmitLocked(loc[t].atLock.book, loc[t].atLock.orders, loc[t].order)
            IN /\ loc'[t].trades = r.trades
               /\ loc'[t].res = r.res
               /\ loc'[t].inBook = r.inBook
               /\ heapBooks'[loc[t].book] = r.book
               /\ \A x \in DOMAIN r.orders : orders'[x] = r.orders[x]
       /\ WalkStep(t) => \A u \in Threads : ~Applying(u, loc[t].sym)
    ]_vars

\* C28 witness: a Submit that has traded is about to return while another
\* Submit on the same symbol waits for the symbol's lock.
C28_Witness ==
  \E t, u \in Threads :
    /\ t # u
    /\ loc[t].op = "submit" /\ pc[t] = "p_post" /\ loc[t].trades # <<>>
    /\ loc[u].op = "submit" /\ pc[u] = "s_sym_lock" /\ loc[u].sym = loc[t].sym
    /\ ~CanLock(heapLocks[loc[u].lock])

\* C29: whatever the interleaving of goroutines that use symbols for the
\* first time, (a) no step replaces or removes the book or the lock a symbol
\* has; (b) exactly one OrderBook and one lock have been created for each
\* symbol of the maps and none else; (c) every goroutine that has returned
\* from getBookAndLock holds the book and the lock the maps give its symbol.
C29_OneBookAndLockPerSymbol ==
  /\ [][/\ \A sym \in DOMAIN Books :
             sym \in DOMAIN Books' /\ Books'[sym] = Books[sym]
        /\ \A sym \in DOMAIN Locks :
             sym \in DOMAIN Locks' /\ Locks'[sym] = Locks[sym]
       ]_vars
  /\ [](/\ DOMAIN Books = DOMAIN Locks
        /\ Len(heapBooks) = Cardinality(DOMAIN Books)
        /\ Len(heapLocks) = Cardinality(DOMAIN Locks)
        /\ \A t \in Threads :
             loc[t].lock # 0 =>
               /\ loc[t].sym \in DOMAIN Locks
               /\ loc[t].lock = Locks[loc[t].sym]
               /\ loc[t].book = Books[loc[t].sym])

\* C29 witness: two goroutines used a new symbol at the same time; both
\* missed it on the fast path, one has created the book and the lock and is
\* past getBookAndLock, the other is at the slow path's re-check.
C29_Witness ==
  \E t, u \in Threads :
    /\ t # u
    /\ pc[u] = "gbl_create" /\ loc[u].sym = loc[t].sym
    /\ pc[t] \notin {"idle", "done", "gbl_read", "gbl_create"}
    /\ loc[t].lock # 0
    /\ Len(heapLocks) = 1
    /\ HasLock(Locks, loc[u].sym)

\* Goroutine t takes a step.
Doer(t) == pc'[t] # pc[t]

\* Goroutine t makes its step with the write lock of symbol sym: it holds the
\* lock, or the step is the one of CancelOrder that begins with lock.Lock()
\* and the lock is free.
WithSymbolWriteLock(t, sym) ==
  /\ sym \in DOMAIN Locks
  /\ LET l == heapLocks[Locks[sym]]
     IN \/ l.w = {t}
        \/ pc[t] = "c_remove" /\ l.w = {} /\ l.r = {}

\* C30: in every step of every interleaving, (a) an order whose filled
\* quantity or status changes is written by a goroutine that is in a Submit
\* with the write lock of the order's symbol, or in a Cancel holding the
\* directory lock in write mode; (b) a book that changes (levels, queues,
\* orderMap) is changed by a goroutine with the write lock of its symbol.
C30_WritesUnderLocks ==
  [][/\ \A x \in DOMAIN orders :
          (orders'[x].filled # orders[x].filled \/ orders'[x].status # orders[x].status) =>
            \E t \in Threads :
              /\ Doer(t)
              /\ \/ loc[t].op = "submit" /\ WithSymbolWriteLock(t, orders[x].sym)
                 \/ loc[t].op = "cancel" /\ orderStoreMutex.w = {t}
     /\ \A sym \in DOMAIN Books :
          heapBooks'[Books[sym]] # heapBooks[Books[sym]] =>
            \E t \in Threads : Doer(t) /\ WithSymbolWriteLock(t, sym)
    ]_vars

\* C30 witness: a Submit that has already traded holds its symbol's write
\* lock and is about to write the resting order's filled quantity, while a
\* Cancel holds the directory lock in write mode and is about to write
\* CANCELLED.
C30_Witness ==
  \E t, u \in Threads :
    /\ pc[t] = "m_fillR" /\ loc[t].trades # <<>>
    /\ heapLocks[loc[t].lock].w = {t}
    /\ pc[u] = "c_mark" /\ orderStoreMutex.w = {u}

\* The places (side, price, position) at which the levels of book b hold order x.
Places(b, x) ==
  {<<side, p, i>> \in {Buy, Sell} \X (DOMAIN b.bidPriceMap \cup DOMAIN b.askPriceMap)
                      \X (1..Len(orders)) :
     /\ p \in DOMAIN PriceMapOf(b, side)
     /\ i \in DOMAIN PriceMapOf(b, side)[p]
     /\ PriceMapOf(b, side)[p][i] = x}

\* C31: whenever no goroutine holds the lock of a symbol (every operation on
\* its book has ended), the keys of the book's orderMap are exactly the
\* identifiers of the orders its price levels hold; every held order is held
\* at one place only, in the level of its own price on its own side; and an
\* order of the symbol has a queue handle exactly when a level holds it.
C31_OrderMapMatchesLevels ==
  \A sym \in DOMAIN Books :
    SymbolLockFree(sym) =>
      LET b == heapBooks[Books[sym]]
      IN /\ DOMAIN b.orderMap = {orders[x].id : x \in HeldIn(b)}
         /\ \A x \in HeldIn(b) :
              /\ Cardinality(Places(b, x)) = 1
              /\ \A pl \in Places(b, x) :
                   pl[1] = orders[x].side /\ pl[2] = orders[x].price
         /\ \A x \in DOMAIN orders :
              orders[x].sym = sym => (orders[x].element <=> x \in HeldIn(b))

\* The prices ps come in the order the side iterates: ascending for the asks,
\* descending for the bids, each price once.
StrictlyOrdered(ps, side) ==
  \A i \in 1..(Len(ps) - 1) :
    IF side = Sell THEN ps[i] < ps[i + 1] ELSE ps[i] > ps[i + 1]

\* C32: whenever no goroutine holds the lock of a symbol, on each side of its
\* book the prices in the ordered index are exactly the keys of the side's
\* price map, iterating the index visits every level once, strictly ascending
\* for the asks and strictly descending for the bids, and no level has an
\* empty queue.
C32_LevelsIndexed ==
  \A sym \in DOMAIN Books :
    SymbolLockFree(sym) =>
      LET b == heapBooks[Books[sym]]
      IN \A side \in {Buy, Sell} :
           /\ TreeOf(b, side) = DOMAIN PriceMapOf(b, side)
           /\ Len(Ascend(TreeOf(b, side), side)) = Cardinality(DOMAIN PriceMapOf(b, side))
           /\ StrictlyOrdered(Ascend(TreeOf(b, side), side), side)
           /\ \A p \in DOMAIN PriceMapOf(b, side) : Len(PriceMapOf(b, side)[p]) > 0

\* C32 witness: with no call in progress, a side has two levels, one of which
\* was deleted when a Cancel removed its last order and was created again by a
\* later order at that price.
C32_Witness ==
  /\ Quiescent
  /\ \E sym \in DOMAIN Books, side \in {Buy, Sell} :
       LET b == heapBooks[Books[sym]]
       IN /\ Cardinality(TreeOf(b, side)) = 2
          /\ \E x \in DOMAIN orders :
               /\ orders[x].id \in cancelled
               /\ orders[x].side = side
               /\ x \notin HeldIn(b)
               /\ orders[x].price \in TreeOf(b, side)

\* A Submit holds the lock of the symbol.
SubmitHolds(sym) ==
  \E t \in Threads : loc[t].op = "submit" /\ heapLocks[Locks[sym]].w = {t}

\* C33: whenever no Submit holds the lock of a symbol and both sides of its
\* book have a level, the best bid price is strictly below the best ask price.
C33_NeverCrossed ==
  \A sym \in DOMAIN Books :
    LET b == heapBooks[Books[sym]]
    IN (~SubmitHolds(sym) /\ b.bids # {} /\ b.asks # {}) =>
         TreeMin(b.bids, Buy) < TreeMin(b.asks, Sell)

\* C33 witness: with no call in progress both sides of a book have a level,
\* and the resting bid is the remainder of an order that traded with the asks
\* it crossed before it was inserted.
C33_Witness ==
  /\ Quiescent
  /\ \E sym \in DOMAIN Books :
       LET b == heapBooks[Books[sym]]
       IN /\ b.bids # {} /\ b.asks # {}
          /\ \E x \in HeldIn(b) :
               /\ orders[x].side = Buy
               /\ orders[x].filled > 0
               /\ \E i \in DOMAIN allTrades : allTrades[i].agg = orders[x].id

\* The next step of t takes a lock that u holds in a conflicting mode.
WaitsFor(t, u) == WaitsForSymbolLock(t, u) \/ WaitsForSharedLock(t, u)

\* The locks goroutine t holds.
HoldsNothing(t) ==
  /\ t \notin Holders(globalMutex)
  /\ t \notin Holders(orderStoreMutex)
  /\ \A i \in DOMAIN heapLocks : t \notin Holders(heapLocks[i])

\* C34: (a) in no reachable state is there a set of goroutines each of which
\* waits for a lock held by a goroutine of the set; (b) a goroutine that is in
\* no call holds no lock; (c) under fair scheduling every call of Submit,
\* Cancel, GetOrderStatus and Snapshot returns, so the matching loops end:
\* every goroutine is outside any call again and again.
C34_NoDeadlockAndTermination ==
  /\ [](\A S \in SUBSET Threads :
          S # {} => \E t \in S : \A u \in S : ~WaitsFor(t, u))
  /\ [](\A t \in Threads : Free(t) => HoldsNothing(t))
  /\ \A t \in Threads : []<>Free(t)

\* C34 witness: a Submit holds the symbol's lock on its rejection path and
\* waits for the directory lock, which a Cancel holds between its status check
\* and its write.
C34_Witness ==
  \E t, u \in Threads :
    /\ pc[t] = "s_reject" /\ heapLocks[loc[t].lock].w = {t}
    /\ pc[u] = "c_mark" /\ orderStoreMutex.w = {u}
    /\ WaitsFor(t, u)

NonTerminal(status) == status \in {StatusAccepted, StatusPartialFill}

\* C35: whenever no call is in progress, (a) every LIMIT order whose status is
\* ACCEPTED or PARTIAL_FILL is held in a price level of its symbol's book, and
\* (b) no order for which a Cancel has succeeded has a status that lets a
\* second Cancel succeed.
C35_NonTerminalIsHeld ==
  Quiescent =>
    \A x \in DOMAIN orders :
      /\ (orders[x].type = Limit /\ NonTerminal(orders[x].status)) =>
           /\ orders[x].sym \in DOMAIN Books
           /\ x \in HeldIn(heapBooks[Books[orders[x].sym]])
      /\ orders[x].id \in cancelled => ~NonTerminal(orders[x].status)

\* The sum of the filled quantities of the first n orders that are of symbol
\* sym and side side.
RECURSIVE SumFilled(_, _, _)
SumFilled(n, sym, side) ==
  IF n = 0 THEN 0
  ELSE SumFilled(n - 1, sym, side)
       + (IF orders[n].sym = sym /\ orders[n].side = side THEN orders[n].filled ELSE 0)

\* A Submit for the symbol has added a trade's quantity to the incoming order
\* and not yet to the resting one.
MidTrade(sym) == \E t \in Threads : pc[t] = "m_fillR" /\ loc[t].sym = sym

\* C36 (fill balance): for each symbol, whenever no Submit is in the middle of
\* a trade, the filled quantities of all BUY orders add up to the same as the
\* filled quantities of all SELL orders.
C36_FillBalance ==
  \A sym \in Symbols :
    ~MidTrade(sym) => SumFilled(Len(orders), sym, Buy) = SumFilled(Len(orders), sym, Sell)

\* C36 witness: with no call in progress, two trades have been made against
\* one resting order, and the filled quantities of both sides are above 0.
C36_Witness ==
  /\ Quiescent
  /\ \E i, j \in DOMAIN allTrades :
       i < j /\ allTrades[i].rest = allTrades[j].rest /\ allTrades[i].agg # allTrades[j].agg
  /\ \E sym \in Symbols : SumFilled(Len(orders), sym, Buy) > 1

\* Goroutine t runs book.CancelOrder for the order its Cancel was called on.
RemoveStep(t) == pc[t] = "c_remove" /\ pc'[t] # "c_remove"

\* The queue q without order x.
Without(q, x) == SelectSeq(q, LAMBDA y : y # x)

\* C37 (frame of Cancel): the step in which Cancel(x) removes x from the book
\* leaves every level's queue as it was but for x, so every other resting
\* order keeps its level and its place behind and before the others; it
\* changes the filled quantity and the status of no order; the quantity
\* aggregated at x's price drops by x's remaining quantity when x was held;
\* and a level leaves the index only if its queue held x and nothing else.
C37_CancelDetachesOnlyTarget ==
  [][\A t \in Threads :
       RemoveStep(t) =>
         LET x == loc[t].order
             b == heapBooks[loc[t].book]
             c == heapBooks'[loc[t].book]
         IN /\ \A side \in {Buy, Sell} :
                 \A p \in DOMAIN PriceMapOf(b, side) \cup DOMAIN PriceMapOf(c, side) :
                   /\ LevelOrders(c, side, p) = Without(LevelOrders(b, side, p), x)
                   /\ (p \in TreeOf(b, side) /\ p \notin TreeOf(c, side)) =>
                        LevelOrders(b, side, p) = <<x>>
                   /\ (p \in TreeOf(c, side)) = (Len(LevelOrders(c, side, p)) > 0)
            /\ \A i \in DOMAIN heapBooks : i # loc[t].book => heapBooks'[i] = heapBooks[i]
            /\ \A y \in DOMAIN orders :
                 /\ orders'[y].filled = orders[y].filled
                 /\ orders'[y].status = orders[y].status
            /\ x \in HeldIn(b) =>
                 LevelTotal(LevelOrders(c, orders[x].side, orders[x].price), orders')
                   = LevelTotal(LevelOrders(b, orders[x].side, orders[x].price), orders)
                     - RemainingQuantity(orders[x])
    ]_vars
====
